---- MODULE Spec2Model ----
(***************************************************************************)
(* A model of lsqpack.c: the QPACK encoder, the decoder, and the integer   *)
(* and Huffman codecs they share.  Byte strings are sequences of numbers   *)
(* in 0..255; a buffer is a sequence and a pointer into it is a 1-based    *)
(* index.  The encoder, the decoder and the wire between them are records  *)
(* held in the variables declared further down.                            *)
(*                                                                         *)
(* The code is modelled as built with assertions enabled: a failed assert  *)
(* ends the process (the "abort" outcome of the operators below).          *)
(* The integer codec computes on uint64_t values kept in three limbs, so   *)
(* that its arithmetic has the width of the code; the integers on the wire *)
(* between encoder and decoder stay far below 2^31.                        *)
(***************************************************************************)
EXTENDS Integers, Sequences, FiniteSets, TLC

----------------------------------------------------------------------------
(* Program constants *)

QPACK_STATIC_TABLE_SIZE == 61
DYNAMIC_ENTRY_OVERHEAD == 32
\* lsqpack.h (not among the sources): the number of bytes of a prefix
\* integer after which lsqpack_dec_int gives up, as spec.md states it
LSQPACK_UINT64_ENC_SZ == 10

HPACK_HUFFMAN_FLAG_ACCEPTED == 1
HPACK_HUFFMAN_FLAG_SYM == 2
HPACK_HUFFMAN_FLAG_FAIL == 4

----------------------------------------------------------------------------
(* Bit helpers on bytes *)

Min(a, b) == IF a < b THEN a ELSE b

\* (b & mask) != 0 for a one-bit mask
HasBit(b, mask) == (b \div mask) % 2 = 1

RECURSIVE BitOrN(_, _, _)
BitOrN(a, b, n) ==
    IF n = 0 THEN 0
    ELSE (IF a % 2 = 1 \/ b % 2 = 1 THEN 1 ELSE 0)
         + 2 * BitOrN(a \div 2, b \div 2, n - 1)

\* a | b on unsigned char
BitOr(a, b) == BitOrN(a % 256, b % 256, 8)

\* a & ~((1 << n) - 1) on unsigned char: clear the low n bits
ClearLow(a, n) == IF n >= 8 THEN 0 ELSE (a \div (2 ^ n)) * (2 ^ n)

ENTRY_COST(name_len, value_len) == DYNAMIC_ENTRY_OVERHEAD + name_len + value_len

----------------------------------------------------------------------------
(* The static table, the Huffman code table and the Huffman decoding       *)
(* automaton, copied from the source.                                      *)

static_table ==
  <<
    [name |-> <<58,97,117,116,104,111,114,105,116,121>>, val |-> <<>>],  \* 1  :authority: 
    [name |-> <<58,109,101,116,104,111,100>>, val |-> <<71,69,84>>],  \* 2  :method: GET
    [name |-> <<58,109,101,116,104,111,100>>, val |-> <<80,79,83,84>>],  \* 3  :method: POST
    [name |-> <<58,112,97,116,104>>, val |-> <<47>>],  \* 4  :path: /
    [name |-> <<58,112,97,116,104>>, val |-> <<47,105,110,100,101,120,46,104,116,109,108>>],  \* 5  :path: /index.html
    [name |-> <<58,115,99,104,101,109,101>>, val |-> <<104,116,116,112>>],  \* 6  :scheme: http
    [name |-> <<58,115,99,104,101,109,101>>, val |-> <<104,116,116,112,115>>],  \* 7  :scheme: https
    [name |-> <<58,115,116,97,116,117,115>>, val |-> <<50,48,48>>],  \* 8  :status: 200
    [name |-> <<58,115,116,97,116,117,115>>, val |-> <<50,48,52>>],  \* 9  :status: 204
    [name |-> <<58,115,116,97,116,117,115>>, val |-> <<50,48,54>>],  \* 10  :status: 206
    [name |-> <<58,115,116,97,116,117,115>>, val |-> <<51,48,52>>],  \* 11  :status: 304
    [name |-> <<58,115,116,97,116,117,115>>, val |-> <<52,48,48>>],  \* 12  :status: 400
    [name |-> <<58,115,116,97,116,117,115>>, val |-> <<52,48,52>>],  \* 13  :status: 404
    [name |-> <<58,115,116,97,116,117,115>>, val |-> <<53,48,48>>],  \* 14  :status: 500
    [name |-> <<97,99,99,101,112,116,45,99,104,97,114,115,101,116>>, val |-> <<>>],  \* 15  accept-charset: 
    [name |-> <<97,99,99,101,112,116,45,101,110,99,111,100,105,110,103>>, val |-> <<103,122,105,112,44,32,100,101,102,108,97,116,101>>],  \* 16  accept-encoding: gzip, deflate
    [name |-> <<97,99,99,101,112,116,45,108,97,110,103,117,97,103,101>>, val |-> <<>>],  \* 17  accept-language: 
    [name |-> <<97,99,99,101,112,116,45,114,97,110,103,101,115>>, val |-> <<>>],  \* 18  accept-ranges: 
    [name |-> <<97,99,99,101,112,116>>, val |-> <<>>],  \* 19  accept: 
    [name |-> <<97,99,99,101,115,115,45,99,111,110,116,114,111,108,45,97,108,108,111,119,45,111,114,105,103,105,110>>, val |-> <<>>],  \* 20  access-control-allow-origin: 
    [name |-> <<97,103,101>>, val |-> <<>>],  \* 21  age: 
    [name |-> <<97,108,108,111,119>>, val |-> <<>>],  \* 22  allow: 
    [name |-> <<97,117,116,104,111,114,105,122,97,116,105,111,110>>, val |-> <<>>],  \* 23  authorization: 
    [name |-> <<99,97,99,104,101,45,99,111,110,116,114,111,108>>, val |-> <<>>],  \* 24  cache-control: 
    [name |-> <<99,111,110,116,101,110,116,45,100,105,115,112,111,115,105,116,105,111,110>>, val |-> <<>>],  \* 25  content-disposition: 
    [name |-> <<99,111,110,116,101,110,116,45,101,110,99,111,100,105,110,103>>, val |-> <<>>],  \* 26  content-encoding: 
    [name |-> <<99,111,110,116,101,110,116,45,108,97,110,103,117,97,103,101>>, val |-> <<>>],  \* 27  content-language: 
    [name |-> <<99,111,110,116,101,110,116,45,108,101,110,103,116,104>>, val |-> <<>>],  \* 28  content-length: 
    [name |-> <<99,111,110,116,101,110,116,45,108,111,99,97,116,105,111,110>>, val |-> <<>>],  \* 29  content-location: 
    [name |-> <<99,111,110,116,101,110,116,45,114,97,110,103,101>>, val |-> <<>>],  \* 30  content-range: 
    [name |-> <<99,111,110,116,101,110,116,45,116,121,112,101>>, val |-> <<>>],  \* 31  content-type: 
    [name |-> <<99,111,111,107,105,101>>, val |-> <<>>],  \* 32  cookie: 
    [name |-> <<100,97,116,101>>, val |-> <<>>],  \* 33  date: 
    [name |-> <<101,116,97,103>>, val |-> <<>>],  \* 34  etag: 
    [name |-> <<101,120,112,101,99,116>>, val |-> <<>>],  \* 35  expect: 
    [name |-> <<101,120,112,105,114,101,115>>, val |-> <<>>],  \* 36  expires: 
    [name |-> <<102,114,111,109>>, val |-> <<>>],  \* 37  from: 
    [name |-> <<104,111,115,116>>, val |-> <<>>],  \* 38  host: 
    [name |-> <<105,102,45,109,97,116,99,104>>, val |-> <<>>],  \* 39  if-match: 
    [name |-> <<105,102,45,109,111,100,105,102,105,101,100,45,115,105,110,99,101>>, val |-> <<>>],  \* 40  if-modified-since: 
    [name |-> <<105,102,45,110,111,110,101,45,109,97,116,99,104>>, val |-> <<>>],  \* 41  if-none-match: 
    [name |-> <<105,102,45,114,97,110,103,101>>, val |-> <<>>],  \* 42  if-range: 
    [name |-> <<105,102,45,117,110,109,111,100,105,102,105,101,100,45,115,105,110,99,101>>, val |-> <<>>],  \* 43  if-unmodified-since: 
    [name |-> <<108,97,115,116,45,109,111,100,105,102,105,101,100>>, val |-> <<>>],  \* 44  last-modified: 
    [name |-> <<108,105,110,107>>, val |-> <<>>],  \* 45  link: 
    [name |-> <<108,111,99,97,116,105,111,110>>, val |-> <<>>],  \* 46  location: 
    [name |-> <<109,97,120,45,102,111,114,119,97,114,100,115>>, val |-> <<>>],  \* 47  max-forwards: 
    [name |-> <<112,114,111,120,121,45,97,117,116,104,101,110,116,105,99,97,116,101>>, val |-> <<>>],  \* 48  proxy-authenticate: 
    [name |-> <<112,114,111,120,121,45,97,117,116,104,111,114,105,122,97,116,105,111,110>>, val |-> <<>>],  \* 49  proxy-authorization: 
    [name |-> <<114,97,110,103,101>>, val |-> <<>>],  \* 50  range: 
    [name |-> <<114,101,102,101,114,101,114>>, val |-> <<>>],  \* 51  referer: 
    [name |-> <<114,101,102,114,101,115,104>>, val |-> <<>>],  \* 52  refresh: 
    [name |-> <<114,101,116,114,121,45,97,102,116,101,114>>, val |-> <<>>],  \* 53  retry-after: 
    [name |-> <<115,101,114,118,101,114>>, val |-> <<>>],  \* 54  server: 
    [name |-> <<115,101,116,45,99,111,111,107,105,101>>, val |-> <<>>],  \* 55  set-cookie: 
    [name |-> <<115,116,114,105,99,116,45,116,114,97,110,115,112,111,114,116,45,115,101,99,117,114,105,116,121>>, val |-> <<>>],  \* 56  strict-transport-security: 
    [name |-> <<116,114,97,110,115,102,101,114,45,101,110,99,111,100,105,110,103>>, val |-> <<>>],  \* 57  transfer-encoding: 
    [name |-> <<117,115,101,114,45,97,103,101,110,116>>, val |-> <<>>],  \* 58  user-agent: 
    [name |-> <<118,97,114,121>>, val |-> <<>>],  \* 59  vary: 
    [name |-> <<118,105,97>>, val |-> <<>>],  \* 60  via: 
    [name |-> <<119,119,119,45,97,117,116,104,101,110,116,105,99,97,116,101>>, val |-> <<>>]   \* 61  www-authenticate: 
  >>

encode_table ==
  <<
    <<8184,13>>, <<8388568,23>>, <<268435426,28>>, <<268435427,28>>, <<268435428,28>>, <<268435429,28>>, <<268435430,28>>, <<268435431,28>>,
    <<268435432,28>>, <<16777194,24>>, <<1073741820,30>>, <<268435433,28>>, <<268435434,28>>, <<1073741821,30>>, <<268435435,28>>, <<268435436,28>>,
    <<268435437,28>>, <<268435438,28>>, <<268435439,28>>, <<268435440,28>>, <<268435441,28>>, <<268435442,28>>, <<1073741822,30>>, <<268435443,28>>,
    <<268435444,28>>, <<268435445,28>>, <<268435446,28>>, <<268435447,28>>, <<268435448,28>>, <<268435449,28>>, <<268435450,28>>, <<268435451,28>>,
    <<20,6>>, <<1016,10>>, <<1017,10>>, <<4090,12>>, <<8185,13>>, <<21,6>>, <<248,8>>, <<2042,11>>,
    <<1018,10>>, <<1019,10>>, <<249,8>>, <<2043,11>>, <<250,8>>, <<22,6>>, <<23,6>>, <<24,6>>,
    <<0,5>>, <<1,5>>, <<2,5>>, <<25,6>>, <<26,6>>, <<27,6>>, <<28,6>>, <<29,6>>,
    <<30,6>>, <<31,6>>, <<92,7>>, <<251,8>>, <<32764,15>>, <<32,6>>, <<4091,12>>, <<1020,10>>,
    <<8186,13>>, <<33,6>>, <<93,7>>, <<94,7>>, <<95,7>>, <<96,7>>, <<97,7>>, <<98,7>>,
    <<99,7>>, <<100,7>>, <<101,7>>, <<102,7>>, <<103,7>>, <<104,7>>, <<105,7>>, <<106,7>>,
    <<107,7>>, <<108,7>>, <<109,7>>, <<110,7>>, <<111,7>>, <<112,7>>, <<113,7>>, <<114,7>>,
    <<252,8>>, <<115,7>>, <<253,8>>, <<8187,13>>, <<524272,19>>, <<8188,13>>, <<16380,14>>, <<34,6>>,
    <<32765,15>>, <<3,5>>, <<35,6>>, <<4,5>>, <<36,6>>, <<5,5>>, <<37,6>>, <<38,6>>,
    <<39,6>>, <<6,5>>, <<116,7>>, <<117,7>>, <<40,6>>, <<41,6>>, <<42,6>>, <<7,5>>,
    <<43,6>>, <<118,7>>, <<44,6>>, <<8,5>>, <<9,5>>, <<45,6>>, <<119,7>>, <<120,7>>,
    <<121,7>>, <<122,7>>, <<123,7>>, <<32766,15>>, <<2044,11>>, <<16381,14>>, <<8189,13>>, <<268435452,28>>,
    <<1048550,20>>, <<4194258,22>>, <<1048551,20>>, <<1048552,20>>, <<4194259,22>>, <<4194260,22>>, <<4194261,22>>, <<8388569,23>>,
    <<4194262,22>>, <<8388570,23>>, <<8388571,23>>, <<8388572,23>>, <<8388573,23>>, <<8388574,23>>, <<16777195,24>>, <<8388575,23>>,
    <<16777196,24>>, <<16777197,24>>, <<4194263,22>>, <<8388576,23>>, <<16777198,24>>, <<8388577,23>>, <<8388578,23>>, <<8388579,23>>,
    <<8388580,23>>, <<2097116,21>>, <<4194264,22>>, <<8388581,23>>, <<4194265,22>>, <<8388582,23>>, <<8388583,23>>, <<16777199,24>>,
    <<4194266,22>>, <<2097117,21>>, <<1048553,20>>, <<4194267,22>>, <<4194268,22>>, <<8388584,23>>, <<8388585,23>>, <<2097118,21>>,
    <<8388586,23>>, <<4194269,22>>, <<4194270,22>>, <<16777200,24>>, <<2097119,21>>, <<4194271,22>>, <<8388587,23>>, <<8388588,23>>,
    <<2097120,21>>, <<2097121,21>>, <<4194272,22>>, <<2097122,21>>, <<8388589,23>>, <<4194273,22>>, <<8388590,23>>, <<8388591,23>>,
    <<1048554,20>>, <<4194274,22>>, <<4194275,22>>, <<4194276,22>>, <<8388592,23>>, <<4194277,22>>, <<4194278,22>>, <<8388593,23>>,
    <<67108832,26>>, <<67108833,26>>, <<1048555,20>>, <<524273,19>>, <<4194279,22>>, <<8388594,23>>, <<4194280,22>>, <<33554412,25>>,
    <<67108834,26>>, <<67108835,26>>, <<67108836,26>>, <<134217694,27>>, <<134217695,27>>, <<67108837,26>>, <<16777201,24>>, <<33554413,25>>,
    <<524274,19>>, <<2097123,21>>, <<67108838,26>>, <<134217696,27>>, <<134217697,27>>, <<67108839,26>>, <<134217698,27>>, <<16777202,24>>,
    <<2097124,21>>, <<2097125,21>>, <<67108840,26>>, <<67108841,26>>, <<268435453,28>>, <<134217699,27>>, <<134217700,27>>, <<134217701,27>>,
    <<1048556,20>>, <<16777203,24>>, <<1048557,20>>, <<2097126,21>>, <<4194281,22>>, <<2097127,21>>, <<2097128,21>>, <<8388595,23>>,
    <<4194282,22>>, <<4194283,22>>, <<33554414,25>>, <<33554415,25>>, <<16777204,24>>, <<16777205,24>>, <<67108842,26>>, <<8388596,23>>,
    <<67108843,26>>, <<134217702,27>>, <<67108844,26>>, <<67108845,26>>, <<134217703,27>>, <<134217704,27>>, <<134217705,27>>, <<134217706,27>>,
    <<134217707,27>>, <<268435454,28>>, <<134217708,27>>, <<134217709,27>>, <<134217710,27>>, <<134217711,27>>, <<134217712,27>>, <<67108846,26>>,
    <<1073741823,30>>
  >>

decode_tables ==
  <<
    <<<<4,0,0>>,<<5,0,0>>,<<7,0,0>>,<<8,0,0>>,<<11,0,0>>,<<12,0,0>>,<<16,0,0>>,<<19,0,0>>,<<25,0,0>>,<<28,0,0>>,<<32,0,0>>,<<35,0,0>>,<<42,0,0>>,<<49,0,0>>,<<57,0,0>>,<<64,1,0>>>>,
    <<<<0,3,48>>,<<0,3,49>>,<<0,3,50>>,<<0,3,97>>,<<0,3,99>>,<<0,3,101>>,<<0,3,105>>,<<0,3,111>>,<<0,3,115>>,<<0,3,116>>,<<13,0,0>>,<<14,0,0>>,<<17,0,0>>,<<18,0,0>>,<<20,0,0>>,<<21,0,0>>>>,
    <<<<1,2,48>>,<<22,3,48>>,<<1,2,49>>,<<22,3,49>>,<<1,2,50>>,<<22,3,50>>,<<1,2,97>>,<<22,3,97>>,<<1,2,99>>,<<22,3,99>>,<<1,2,101>>,<<22,3,101>>,<<1,2,105>>,<<22,3,105>>,<<1,2,111>>,<<22,3,111>>>>,
    <<<<2,2,48>>,<<9,2,48>>,<<23,2,48>>,<<40,3,48>>,<<2,2,49>>,<<9,2,49>>,<<23,2,49>>,<<40,3,49>>,<<2,2,50>>,<<9,2,50>>,<<23,2,50>>,<<40,3,50>>,<<2,2,97>>,<<9,2,97>>,<<23,2,97>>,<<40,3,97>>>>,
    <<<<3,2,48>>,<<6,2,48>>,<<10,2,48>>,<<15,2,48>>,<<24,2,48>>,<<31,2,48>>,<<41,2,48>>,<<56,3,48>>,<<3,2,49>>,<<6,2,49>>,<<10,2,49>>,<<15,2,49>>,<<24,2,49>>,<<31,2,49>>,<<41,2,49>>,<<56,3,49>>>>,
    <<<<3,2,50>>,<<6,2,50>>,<<10,2,50>>,<<15,2,50>>,<<24,2,50>>,<<31,2,50>>,<<41,2,50>>,<<56,3,50>>,<<3,2,97>>,<<6,2,97>>,<<10,2,97>>,<<15,2,97>>,<<24,2,97>>,<<31,2,97>>,<<41,2,97>>,<<56,3,97>>>>,
    <<<<2,2,99>>,<<9,2,99>>,<<23,2,99>>,<<40,3,99>>,<<2,2,101>>,<<9,2,101>>,<<23,2,101>>,<<40,3,101>>,<<2,2,105>>,<<9,2,105>>,<<23,2,105>>,<<40,3,105>>,<<2,2,111>>,<<9,2,111>>,<<23,2,111>>,<<40,3,111>>>>,
    <<<<3,2,99>>,<<6,2,99>>,<<10,2,99>>,<<15,2,99>>,<<24,2,99>>,<<31,2,99>>,<<41,2,99>>,<<56,3,99>>,<<3,2,101>>,<<6,2,101>>,<<10,2,101>>,<<15,2,101>>,<<24,2,101>>,<<31,2,101>>,<<41,2,101>>,<<56,3,101>>>>,
    <<<<3,2,105>>,<<6,2,105>>,<<10,2,105>>,<<15,2,105>>,<<24,2,105>>,<<31,2,105>>,<<41,2,105>>,<<56,3,105>>,<<3,2,111>>,<<6,2,111>>,<<10,2,111>>,<<15,2,111>>,<<24,2,111>>,<<31,2,111>>,<<41,2,111>>,<<56,3,111>>>>,
    <<<<1,2,115>>,<<22,3,115>>,<<1,2,116>>,<<22,3,116>>,<<0,3,32>>,<<0,3,37>>,<<0,3,45>>,<<0,3,46>>,<<0,3,47>>,<<0,3,51>>,<<0,3,52>>,<<0,3,53>>,<<0,3,54>>,<<0,3,55>>,<<0,3,56>>,<<0,3,57>>>>,
    <<<<2,2,115>>,<<9,2,115>>,<<23,2,115>>,<<40,3,115>>,<<2,2,116>>,<<9,2,116>>,<<23,2,116>>,<<40,3,116>>,<<1,2,32>>,<<22,3,32>>,<<1,2,37>>,<<22,3,37>>,<<1,2,45>>,<<22,3,45>>,<<1,2,46>>,<<22,3,46>>>>,
    <<<<3,2,115>>,<<6,2,115>>,<<10,2,115>>,<<15,2,115>>,<<24,2,115>>,<<31,2,115>>,<<41,2,115>>,<<56,3,115>>,<<3,2,116>>,<<6,2,116>>,<<10,2,116>>,<<15,2,116>>,<<24,2,116>>,<<31,2,116>>,<<41,2,116>>,<<56,3,116>>>>,
    <<<<2,2,32>>,<<9,2,32>>,<<23,2,32>>,<<40,3,32>>,<<2,2,37>>,<<9,2,37>>,<<23,2,37>>,<<40,3,37>>,<<2,2,45>>,<<9,2,45>>,<<23,2,45>>,<<40,3,45>>,<<2,2,46>>,<<9,2,46>>,<<23,2,46>>,<<40,3,46>>>>,
    <<<<3,2,32>>,<<6,2,32>>,<<10,2,32>>,<<15,2,32>>,<<24,2,32>>,<<31,2,32>>,<<41,2,32>>,<<56,3,32>>,<<3,2,37>>,<<6,2,37>>,<<10,2,37>>,<<15,2,37>>,<<24,2,37>>,<<31,2,37>>,<<41,2,37>>,<<56,3,37>>>>,
    <<<<3,2,45>>,<<6,2,45>>,<<10,2,45>>,<<15,2,45>>,<<24,2,45>>,<<31,2,45>>,<<41,2,45>>,<<56,3,45>>,<<3,2,46>>,<<6,2,46>>,<<10,2,46>>,<<15,2,46>>,<<24,2,46>>,<<31,2,46>>,<<41,2,46>>,<<56,3,46>>>>,
    <<<<1,2,47>>,<<22,3,47>>,<<1,2,51>>,<<22,3,51>>,<<1,2,52>>,<<22,3,52>>,<<1,2,53>>,<<22,3,53>>,<<1,2,54>>,<<22,3,54>>,<<1,2,55>>,<<22,3,55>>,<<1,2,56>>,<<22,3,56>>,<<1,2,57>>,<<22,3,57>>>>,
    <<<<2,2,47>>,<<9,2,47>>,<<23,2,47>>,<<40,3,47>>,<<2,2,51>>,<<9,2,51>>,<<23,2,51>>,<<40,3,51>>,<<2,2,52>>,<<9,2,52>>,<<23,2,52>>,<<40,3,52>>,<<2,2,53>>,<<9,2,53>>,<<23,2,53>>,<<40,3,53>>>>,
    <<<<3,2,47>>,<<6,2,47>>,<<10,2,47>>,<<15,2,47>>,<<24,2,47>>,<<31,2,47>>,<<41,2,47>>,<<56,3,47>>,<<3,2,51>>,<<6,2,51>>,<<10,2,51>>,<<15,2,51>>,<<24,2,51>>,<<31,2,51>>,<<41,2,51>>,<<56,3,51>>>>,
    <<<<3,2,52>>,<<6,2,52>>,<<10,2,52>>,<<15,2,52>>,<<24,2,52>>,<<31,2,52>>,<<41,2,52>>,<<56,3,52>>,<<3,2,53>>,<<6,2,53>>,<<10,2,53>>,<<15,2,53>>,<<24,2,53>>,<<31,2,53>>,<<41,2,53>>,<<56,3,53>>>>,
    <<<<2,2,54>>,<<9,2,54>>,<<23,2,54>>,<<40,3,54>>,<<2,2,55>>,<<9,2,55>>,<<23,2,55>>,<<40,3,55>>,<<2,2,56>>,<<9,2,56>>,<<23,2,56>>,<<40,3,56>>,<<2,2,57>>,<<9,2,57>>,<<23,2,57>>,<<40,3,57>>>>,
    <<<<3,2,54>>,<<6,2,54>>,<<10,2,54>>,<<15,2,54>>,<<24,2,54>>,<<31,2,54>>,<<41,2,54>>,<<56,3,54>>,<<3,2,55>>,<<6,2,55>>,<<10,2,55>>,<<15,2,55>>,<<24,2,55>>,<<31,2,55>>,<<41,2,55>>,<<56,3,55>>>>,
    <<<<3,2,56>>,<<6,2,56>>,<<10,2,56>>,<<15,2,56>>,<<24,2,56>>,<<31,2,56>>,<<41,2,56>>,<<56,3,56>>,<<3,2,57>>,<<6,2,57>>,<<10,2,57>>,<<15,2,57>>,<<24,2,57>>,<<31,2,57>>,<<41,2,57>>,<<56,3,57>>>>,
    <<<<26,0,0>>,<<27,0,0>>,<<29,0,0>>,<<30,0,0>>,<<33,0,0>>,<<34,0,0>>,<<36,0,0>>,<<37,0,0>>,<<43,0,0>>,<<46,0,0>>,<<50,0,0>>,<<53,0,0>>,<<58,0,0>>,<<61,0,0>>,<<65,0,0>>,<<68,1,0>>>>,
    <<<<0,3,61>>,<<0,3,65>>,<<0,3,95>>,<<0,3,98>>,<<0,3,100>>,<<0,3,102>>,<<0,3,103>>,<<0,3,104>>,<<0,3,108>>,<<0,3,109>>,<<0,3,110>>,<<0,3,112>>,<<0,3,114>>,<<0,3,117>>,<<38,0,0>>,<<39,0,0>>>>,
    <<<<1,2,61>>,<<22,3,61>>,<<1,2,65>>,<<22,3,65>>,<<1,2,95>>,<<22,3,95>>,<<1,2,98>>,<<22,3,98>>,<<1,2,100>>,<<22,3,100>>,<<1,2,102>>,<<22,3,102>>,<<1,2,103>>,<<22,3,103>>,<<1,2,104>>,<<22,3,104>>>>,
    <<<<2,2,61>>,<<9,2,61>>,<<23,2,61>>,<<40,3,61>>,<<2,2,65>>,<<9,2,65>>,<<23,2,65>>,<<40,3,65>>,<<2,2,95>>,<<9,2,95>>,<<23,2,95>>,<<40,3,95>>,<<2,2,98>>,<<9,2,98>>,<<23,2,98>>,<<40,3,98>>>>,
    <<<<3,2,61>>,<<6,2,61>>,<<10,2,61>>,<<15,2,61>>,<<24,2,61>>,<<31,2,61>>,<<41,2,61>>,<<56,3,61>>,<<3,2,65>>,<<6,2,65>>,<<10,2,65>>,<<15,2,65>>,<<24,2,65>>,<<31,2,65>>,<<41,2,65>>,<<56,3,65>>>>,
    <<<<3,2,95>>,<<6,2,95>>,<<10,2,95>>,<<15,2,95>>,<<24,2,95>>,<<31,2,95>>,<<41,2,95>>,<<56,3,95>>,<<3,2,98>>,<<6,2,98>>,<<10,2,98>>,<<15,2,98>>,<<24,2,98>>,<<31,2,98>>,<<41,2,98>>,<<56,3,98>>>>,
    <<<<2,2,100>>,<<9,2,100>>,<<23,2,100>>,<<40,3,100>>,<<2,2,102>>,<<9,2,102>>,<<23,2,102>>,<<40,3,102>>,<<2,2,103>>,<<9,2,103>>,<<23,2,103>>,<<40,3,103>>,<<2,2,104>>,<<9,2,104>>,<<23,2,104>>,<<40,3,104>>>>,
    <<<<3,2,100>>,<<6,2,100>>,<<10,2,100>>,<<15,2,100>>,<<24,2,100>>,<<31,2,100>>,<<41,2,100>>,<<56,3,100>>,<<3,2,102>>,<<6,2,102>>,<<10,2,102>>,<<15,2,102>>,<<24,2,102>>,<<31,2,102>>,<<41,2,102>>,<<56,3,102>>>>,
    <<<<3,2,103>>,<<6,2,103>>,<<10,2,103>>,<<15,2,103>>,<<24,2,103>>,<<31,2,103>>,<<41,2,103>>,<<56,3,103>>,<<3,2,104>>,<<6,2,104>>,<<10,2,104>>,<<15,2,104>>,<<24,2,104>>,<<31,2,104>>,<<41,2,104>>,<<56,3,104>>>>,
    <<<<1,2,108>>,<<22,3,108>>,<<1,2,109>>,<<22,3,109>>,<<1,2,110>>,<<22,3,110>>,<<1,2,112>>,<<22,3,112>>,<<1,2,114>>,<<22,3,114>>,<<1,2,117>>,<<22,3,117>>,<<0,3,58>>,<<0,3,66>>,<<0,3,67>>,<<0,3,68>>>>,
    <<<<2,2,108>>,<<9,2,108>>,<<23,2,108>>,<<40,3,108>>,<<2,2,109>>,<<9,2,109>>,<<23,2,109>>,<<40,3,109>>,<<2,2,110>>,<<9,2,110>>,<<23,2,110>>,<<40,3,110>>,<<2,2,112>>,<<9,2,112>>,<<23,2,112>>,<<40,3,112>>>>,
    <<<<3,2,108>>,<<6,2,108>>,<<10,2,108>>,<<15,2,108>>,<<24,2,108>>,<<31,2,108>>,<<41,2,108>>,<<56,3,108>>,<<3,2,109>>,<<6,2,109>>,<<10,2,109>>,<<15,2,109>>,<<24,2,109>>,<<31,2,109>>,<<41,2,109>>,<<56,3,109>>>>,
    <<<<3,2,110>>,<<6,2,110>>,<<10,2,110>>,<<15,2,110>>,<<24,2,110>>,<<31,2,110>>,<<41,2,110>>,<<56,3,110>>,<<3,2,112>>,<<6,2,112>>,<<10,2,112>>,<<15,2,112>>,<<24,2,112>>,<<31,2,112>>,<<41,2,112>>,<<56,3,112>>>>,
    <<<<2,2,114>>,<<9,2,114>>,<<23,2,114>>,<<40,3,114>>,<<2,2,117>>,<<9,2,117>>,<<23,2,117>>,<<40,3,117>>,<<1,2,58>>,<<22,3,58>>,<<1,2,66>>,<<22,3,66>>,<<1,2,67>>,<<22,3,67>>,<<1,2,68>>,<<22,3,68>>>>,
    <<<<3,2,114>>,<<6,2,114>>,<<10,2,114>>,<<15,2,114>>,<<24,2,114>>,<<31,2,114>>,<<41,2,114>>,<<56,3,114>>,<<3,2,117>>,<<6,2,117>>,<<10,2,117>>,<<15,2,117>>,<<24,2,117>>,<<31,2,117>>,<<41,2,117>>,<<56,3,117>>>>,
    <<<<2,2,58>>,<<9,2,58>>,<<23,2,58>>,<<40,3,58>>,<<2,2,66>>,<<9,2,66>>,<<23,2,66>>,<<40,3,66>>,<<2,2,67>>,<<9,2,67>>,<<23,2,67>>,<<40,3,67>>,<<2,2,68>>,<<9,2,68>>,<<23,2,68>>,<<40,3,68>>>>,
    <<<<3,2,58>>,<<6,2,58>>,<<10,2,58>>,<<15,2,58>>,<<24,2,58>>,<<31,2,58>>,<<41,2,58>>,<<56,3,58>>,<<3,2,66>>,<<6,2,66>>,<<10,2,66>>,<<15,2,66>>,<<24,2,66>>,<<31,2,66>>,<<41,2,66>>,<<56,3,66>>>>,
    <<<<3,2,67>>,<<6,2,67>>,<<10,2,67>>,<<15,2,67>>,<<24,2,67>>,<<31,2,67>>,<<41,2,67>>,<<56,3,67>>,<<3,2,68>>,<<6,2,68>>,<<10,2,68>>,<<15,2,68>>,<<24,2,68>>,<<31,2,68>>,<<41,2,68>>,<<56,3,68>>>>,
    <<<<44,0,0>>,<<45,0,0>>,<<47,0,0>>,<<48,0,0>>,<<51,0,0>>,<<52,0,0>>,<<54,0,0>>,<<55,0,0>>,<<59,0,0>>,<<60,0,0>>,<<62,0,0>>,<<63,0,0>>,<<66,0,0>>,<<67,0,0>>,<<69,0,0>>,<<72,1,0>>>>,
    <<<<0,3,69>>,<<0,3,70>>,<<0,3,71>>,<<0,3,72>>,<<0,3,73>>,<<0,3,74>>,<<0,3,75>>,<<0,3,76>>,<<0,3,77>>,<<0,3,78>>,<<0,3,79>>,<<0,3,80>>,<<0,3,81>>,<<0,3,82>>,<<0,3,83>>,<<0,3,84>>>>,
    <<<<1,2,69>>,<<22,3,69>>,<<1,2,70>>,<<22,3,70>>,<<1,2,71>>,<<22,3,71>>,<<1,2,72>>,<<22,3,72>>,<<1,2,73>>,<<22,3,73>>,<<1,2,74>>,<<22,3,74>>,<<1,2,75>>,<<22,3,75>>,<<1,2,76>>,<<22,3,76>>>>,
    <<<<2,2,69>>,<<9,2,69>>,<<23,2,69>>,<<40,3,69>>,<<2,2,70>>,<<9,2,70>>,<<23,2,70>>,<<40,3,70>>,<<2,2,71>>,<<9,2,71>>,<<23,2,71>>,<<40,3,71>>,<<2,2,72>>,<<9,2,72>>,<<23,2,72>>,<<40,3,72>>>>,
    <<<<3,2,69>>,<<6,2,69>>,<<10,2,69>>,<<15,2,69>>,<<24,2,69>>,<<31,2,69>>,<<41,2,69>>,<<56,3,69>>,<<3,2,70>>,<<6,2,70>>,<<10,2,70>>,<<15,2,70>>,<<24,2,70>>,<<31,2,70>>,<<41,2,70>>,<<56,3,70>>>>,
    <<<<3,2,71>>,<<6,2,71>>,<<10,2,71>>,<<15,2,71>>,<<24,2,71>>,<<31,2,71>>,<<41,2,71>>,<<56,3,71>>,<<3,2,72>>,<<6,2,72>>,<<10,2,72>>,<<15,2,72>>,<<24,2,72>>,<<31,2,72>>,<<41,2,72>>,<<56,3,72>>>>,
    <<<<2,2,73>>,<<9,2,73>>,<<23,2,73>>,<<40,3,73>>,<<2,2,74>>,<<9,2,74>>,<<23,2,74>>,<<40,3,74>>,<<2,2,75>>,<<9,2,75>>,<<23,2,75>>,<<40,3,75>>,<<2,2,76>>,<<9,2,76>>,<<23,2,76>>,<<40,3,76>>>>,
    <<<<3,2,73>>,<<6,2,73>>,<<10,2,73>>,<<15,2,73>>,<<24,2,73>>,<<31,2,73>>,<<41,2,73>>,<<56,3,73>>,<<3,2,74>>,<<6,2,74>>,<<10,2,74>>,<<15,2,74>>,<<24,2,74>>,<<31,2,74>>,<<41,2,74>>,<<56,3,74>>>>,
    <<<<3,2,75>>,<<6,2,75>>,<<10,2,75>>,<<15,2,75>>,<<24,2,75>>,<<31,2,75>>,<<41,2,75>>,<<56,3,75>>,<<3,2,76>>,<<6,2,76>>,<<10,2,76>>,<<15,2,76>>,<<24,2,76>>,<<31,2,76>>,<<41,2,76>>,<<56,3,76>>>>,
    <<<<1,2,77>>,<<22,3,77>>,<<1,2,78>>,<<22,3,78>>,<<1,2,79>>,<<22,3,79>>,<<1,2,80>>,<<22,3,80>>,<<1,2,81>>,<<22,3,81>>,<<1,2,82>>,<<22,3,82>>,<<1,2,83>>,<<22,3,83>>,<<1,2,84>>,<<22,3,84>>>>,
    <<<<2,2,77>>,<<9,2,77>>,<<23,2,77>>,<<40,3,77>>,<<2,2,78>>,<<9,2,78>>,<<23,2,78>>,<<40,3,78>>,<<2,2,79>>,<<9,2,79>>,<<23,2,79>>,<<40,3,79>>,<<2,2,80>>,<<9,2,80>>,<<23,2,80>>,<<40,3,80>>>>,
    <<<<3,2,77>>,<<6,2,77>>,<<10,2,77>>,<<15,2,77>>,<<24,2,77>>,<<31,2,77>>,<<41,2,77>>,<<56,3,77>>,<<3,2,78>>,<<6,2,78>>,<<10,2,78>>,<<15,2,78>>,<<24,2,78>>,<<31,2,78>>,<<41,2,78>>,<<56,3,78>>>>,
    <<<<3,2,79>>,<<6,2,79>>,<<10,2,79>>,<<15,2,79>>,<<24,2,79>>,<<31,2,79>>,<<41,2,79>>,<<56,3,79>>,<<3,2,80>>,<<6,2,80>>,<<10,2,80>>,<<15,2,80>>,<<24,2,80>>,<<31,2,80>>,<<41,2,80>>,<<56,3,80>>>>,
    <<<<2,2,81>>,<<9,2,81>>,<<23,2,81>>,<<40,3,81>>,<<2,2,82>>,<<9,2,82>>,<<23,2,82>>,<<40,3,82>>,<<2,2,83>>,<<9,2,83>>,<<23,2,83>>,<<40,3,83>>,<<2,2,84>>,<<9,2,84>>,<<23,2,84>>,<<40,3,84>>>>,
    <<<<3,2,81>>,<<6,2,81>>,<<10,2,81>>,<<15,2,81>>,<<24,2,81>>,<<31,2,81>>,<<41,2,81>>,<<56,3,81>>,<<3,2,82>>,<<6,2,82>>,<<10,2,82>>,<<15,2,82>>,<<24,2,82>>,<<31,2,82>>,<<41,2,82>>,<<56,3,82>>>>,
    <<<<3,2,83>>,<<6,2,83>>,<<10,2,83>>,<<15,2,83>>,<<24,2,83>>,<<31,2,83>>,<<41,2,83>>,<<56,3,83>>,<<3,2,84>>,<<6,2,84>>,<<10,2,84>>,<<15,2,84>>,<<24,2,84>>,<<31,2,84>>,<<41,2,84>>,<<56,3,84>>>>,
    <<<<0,3,85>>,<<0,3,86>>,<<0,3,87>>,<<0,3,89>>,<<0,3,106>>,<<0,3,107>>,<<0,3,113>>,<<0,3,118>>,<<0,3,119>>,<<0,3,120>>,<<0,3,121>>,<<0,3,122>>,<<70,0,0>>,<<71,0,0>>,<<73,0,0>>,<<74,1,0>>>>,
    <<<<1,2,85>>,<<22,3,85>>,<<1,2,86>>,<<22,3,86>>,<<1,2,87>>,<<22,3,87>>,<<1,2,89>>,<<22,3,89>>,<<1,2,106>>,<<22,3,106>>,<<1,2,107>>,<<22,3,107>>,<<1,2,113>>,<<22,3,113>>,<<1,2,118>>,<<22,3,118>>>>,
    <<<<2,2,85>>,<<9,2,85>>,<<23,2,85>>,<<40,3,85>>,<<2,2,86>>,<<9,2,86>>,<<23,2,86>>,<<40,3,86>>,<<2,2,87>>,<<9,2,87>>,<<23,2,87>>,<<40,3,87>>,<<2,2,89>>,<<9,2,89>>,<<23,2,89>>,<<40,3,89>>>>,
    <<<<3,2,85>>,<<6,2,85>>,<<10,2,85>>,<<15,2,85>>,<<24,2,85>>,<<31,2,85>>,<<41,2,85>>,<<56,3,85>>,<<3,2,86>>,<<6,2,86>>,<<10,2,86>>,<<15,2,86>>,<<24,2,86>>,<<31,2,86>>,<<41,2,86>>,<<56,3,86>>>>,
    <<<<3,2,87>>,<<6,2,87>>,<<10,2,87>>,<<15,2,87>>,<<24,2,87>>,<<31,2,87>>,<<41,2,87>>,<<56,3,87>>,<<3,2,89>>,<<6,2,89>>,<<10,2,89>>,<<15,2,89>>,<<24,2,89>>,<<31,2,89>>,<<41,2,89>>,<<56,3,89>>>>,
    <<<<2,2,106>>,<<9,2,106>>,<<23,2,106>>,<<40,3,106>>,<<2,2,107>>,<<9,2,107>>,<<23,2,107>>,<<40,3,107>>,<<2,2,113>>,<<9,2,113>>,<<23,2,113>>,<<40,3,113>>,<<2,2,118>>,<<9,2,118>>,<<23,2,118>>,<<40,3,118>>>>,
    <<<<3,2,106>>,<<6,2,106>>,<<10,2,106>>,<<15,2,106>>,<<24,2,106>>,<<31,2,106>>,<<41,2,106>>,<<56,3,106>>,<<3,2,107>>,<<6,2,107>>,<<10,2,107>>,<<15,2,107>>,<<24,2,107>>,<<31,2,107>>,<<41,2,107>>,<<56,3,107>>>>,
    <<<<3,2,113>>,<<6,2,113>>,<<10,2,113>>,<<15,2,113>>,<<24,2,113>>,<<31,2,113>>,<<41,2,113>>,<<56,3,113>>,<<3,2,118>>,<<6,2,118>>,<<10,2,118>>,<<15,2,118>>,<<24,2,118>>,<<31,2,118>>,<<41,2,118>>,<<56,3,118>>>>,
    <<<<1,2,119>>,<<22,3,119>>,<<1,2,120>>,<<22,3,120>>,<<1,2,121>>,<<22,3,121>>,<<1,2,122>>,<<22,3,122>>,<<0,3,38>>,<<0,3,42>>,<<0,3,44>>,<<0,3,59>>,<<0,3,88>>,<<0,3,90>>,<<75,0,0>>,<<78,0,0>>>>,
    <<<<2,2,119>>,<<9,2,119>>,<<23,2,119>>,<<40,3,119>>,<<2,2,120>>,<<9,2,120>>,<<23,2,120>>,<<40,3,120>>,<<2,2,121>>,<<9,2,121>>,<<23,2,121>>,<<40,3,121>>,<<2,2,122>>,<<9,2,122>>,<<23,2,122>>,<<40,3,122>>>>,
    <<<<3,2,119>>,<<6,2,119>>,<<10,2,119>>,<<15,2,119>>,<<24,2,119>>,<<31,2,119>>,<<41,2,119>>,<<56,3,119>>,<<3,2,120>>,<<6,2,120>>,<<10,2,120>>,<<15,2,120>>,<<24,2,120>>,<<31,2,120>>,<<41,2,120>>,<<56,3,120>>>>,
    <<<<3,2,121>>,<<6,2,121>>,<<10,2,121>>,<<15,2,121>>,<<24,2,121>>,<<31,2,121>>,<<41,2,121>>,<<56,3,121>>,<<3,2,122>>,<<6,2,122>>,<<10,2,122>>,<<15,2,122>>,<<24,2,122>>,<<31,2,122>>,<<41,2,122>>,<<56,3,122>>>>,
    <<<<1,2,38>>,<<22,3,38>>,<<1,2,42>>,<<22,3,42>>,<<1,2,44>>,<<22,3,44>>,<<1,2,59>>,<<22,3,59>>,<<1,2,88>>,<<22,3,88>>,<<1,2,90>>,<<22,3,90>>,<<76,0,0>>,<<77,0,0>>,<<79,0,0>>,<<81,0,0>>>>,
    <<<<2,2,38>>,<<9,2,38>>,<<23,2,38>>,<<40,3,38>>,<<2,2,42>>,<<9,2,42>>,<<23,2,42>>,<<40,3,42>>,<<2,2,44>>,<<9,2,44>>,<<23,2,44>>,<<40,3,44>>,<<2,2,59>>,<<9,2,59>>,<<23,2,59>>,<<40,3,59>>>>,
    <<<<3,2,38>>,<<6,2,38>>,<<10,2,38>>,<<15,2,38>>,<<24,2,38>>,<<31,2,38>>,<<41,2,38>>,<<56,3,38>>,<<3,2,42>>,<<6,2,42>>,<<10,2,42>>,<<15,2,42>>,<<24,2,42>>,<<31,2,42>>,<<41,2,42>>,<<56,3,42>>>>,
    <<<<3,2,44>>,<<6,2,44>>,<<10,2,44>>,<<15,2,44>>,<<24,2,44>>,<<31,2,44>>,<<41,2,44>>,<<56,3,44>>,<<3,2,59>>,<<6,2,59>>,<<10,2,59>>,<<15,2,59>>,<<24,2,59>>,<<31,2,59>>,<<41,2,59>>,<<56,3,59>>>>,
    <<<<2,2,88>>,<<9,2,88>>,<<23,2,88>>,<<40,3,88>>,<<2,2,90>>,<<9,2,90>>,<<23,2,90>>,<<40,3,90>>,<<0,3,33>>,<<0,3,34>>,<<0,3,40>>,<<0,3,41>>,<<0,3,63>>,<<80,0,0>>,<<82,0,0>>,<<84,0,0>>>>,
    <<<<3,2,88>>,<<6,2,88>>,<<10,2,88>>,<<15,2,88>>,<<24,2,88>>,<<31,2,88>>,<<41,2,88>>,<<56,3,88>>,<<3,2,90>>,<<6,2,90>>,<<10,2,90>>,<<15,2,90>>,<<24,2,90>>,<<31,2,90>>,<<41,2,90>>,<<56,3,90>>>>,
    <<<<1,2,33>>,<<22,3,33>>,<<1,2,34>>,<<22,3,34>>,<<1,2,40>>,<<22,3,40>>,<<1,2,41>>,<<22,3,41>>,<<1,2,63>>,<<22,3,63>>,<<0,3,39>>,<<0,3,43>>,<<0,3,124>>,<<83,0,0>>,<<85,0,0>>,<<88,0,0>>>>,
    <<<<2,2,33>>,<<9,2,33>>,<<23,2,33>>,<<40,3,33>>,<<2,2,34>>,<<9,2,34>>,<<23,2,34>>,<<40,3,34>>,<<2,2,40>>,<<9,2,40>>,<<23,2,40>>,<<40,3,40>>,<<2,2,41>>,<<9,2,41>>,<<23,2,41>>,<<40,3,41>>>>,
    <<<<3,2,33>>,<<6,2,33>>,<<10,2,33>>,<<15,2,33>>,<<24,2,33>>,<<31,2,33>>,<<41,2,33>>,<<56,3,33>>,<<3,2,34>>,<<6,2,34>>,<<10,2,34>>,<<15,2,34>>,<<24,2,34>>,<<31,2,34>>,<<41,2,34>>,<<56,3,34>>>>,
    <<<<3,2,40>>,<<6,2,40>>,<<10,2,40>>,<<15,2,40>>,<<24,2,40>>,<<31,2,40>>,<<41,2,40>>,<<56,3,40>>,<<3,2,41>>,<<6,2,41>>,<<10,2,41>>,<<15,2,41>>,<<24,2,41>>,<<31,2,41>>,<<41,2,41>>,<<56,3,41>>>>,
    <<<<2,2,63>>,<<9,2,63>>,<<23,2,63>>,<<40,3,63>>,<<1,2,39>>,<<22,3,39>>,<<1,2,43>>,<<22,3,43>>,<<1,2,124>>,<<22,3,124>>,<<0,3,35>>,<<0,3,62>>,<<86,0,0>>,<<87,0,0>>,<<89,0,0>>,<<90,0,0>>>>,
    <<<<3,2,63>>,<<6,2,63>>,<<10,2,63>>,<<15,2,63>>,<<24,2,63>>,<<31,2,63>>,<<41,2,63>>,<<56,3,63>>,<<2,2,39>>,<<9,2,39>>,<<23,2,39>>,<<40,3,39>>,<<2,2,43>>,<<9,2,43>>,<<23,2,43>>,<<40,3,43>>>>,
    <<<<3,2,39>>,<<6,2,39>>,<<10,2,39>>,<<15,2,39>>,<<24,2,39>>,<<31,2,39>>,<<41,2,39>>,<<56,3,39>>,<<3,2,43>>,<<6,2,43>>,<<10,2,43>>,<<15,2,43>>,<<24,2,43>>,<<31,2,43>>,<<41,2,43>>,<<56,3,43>>>>,
    <<<<2,2,124>>,<<9,2,124>>,<<23,2,124>>,<<40,3,124>>,<<1,2,35>>,<<22,3,35>>,<<1,2,62>>,<<22,3,62>>,<<0,3,0>>,<<0,3,36>>,<<0,3,64>>,<<0,3,91>>,<<0,3,93>>,<<0,3,126>>,<<91,0,0>>,<<92,0,0>>>>,
    <<<<3,2,124>>,<<6,2,124>>,<<10,2,124>>,<<15,2,124>>,<<24,2,124>>,<<31,2,124>>,<<41,2,124>>,<<56,3,124>>,<<2,2,35>>,<<9,2,35>>,<<23,2,35>>,<<40,3,35>>,<<2,2,62>>,<<9,2,62>>,<<23,2,62>>,<<40,3,62>>>>,
    <<<<3,2,35>>,<<6,2,35>>,<<10,2,35>>,<<15,2,35>>,<<24,2,35>>,<<31,2,35>>,<<41,2,35>>,<<56,3,35>>,<<3,2,62>>,<<6,2,62>>,<<10,2,62>>,<<15,2,62>>,<<24,2,62>>,<<31,2,62>>,<<41,2,62>>,<<56,3,62>>>>,
    <<<<1,2,0>>,<<22,3,0>>,<<1,2,36>>,<<22,3,36>>,<<1,2,64>>,<<22,3,64>>,<<1,2,91>>,<<22,3,91>>,<<1,2,93>>,<<22,3,93>>,<<1,2,126>>,<<22,3,126>>,<<0,3,94>>,<<0,3,125>>,<<93,0,0>>,<<94,0,0>>>>,
    <<<<2,2,0>>,<<9,2,0>>,<<23,2,0>>,<<40,3,0>>,<<2,2,36>>,<<9,2,36>>,<<23,2,36>>,<<40,3,36>>,<<2,2,64>>,<<9,2,64>>,<<23,2,64>>,<<40,3,64>>,<<2,2,91>>,<<9,2,91>>,<<23,2,91>>,<<40,3,91>>>>,
    <<<<3,2,0>>,<<6,2,0>>,<<10,2,0>>,<<15,2,0>>,<<24,2,0>>,<<31,2,0>>,<<41,2,0>>,<<56,3,0>>,<<3,2,36>>,<<6,2,36>>,<<10,2,36>>,<<15,2,36>>,<<24,2,36>>,<<31,2,36>>,<<41,2,36>>,<<56,3,36>>>>,
    <<<<3,2,64>>,<<6,2,64>>,<<10,2,64>>,<<15,2,64>>,<<24,2,64>>,<<31,2,64>>,<<41,2,64>>,<<56,3,64>>,<<3,2,91>>,<<6,2,91>>,<<10,2,91>>,<<15,2,91>>,<<24,2,91>>,<<31,2,91>>,<<41,2,91>>,<<56,3,91>>>>,
    <<<<2,2,93>>,<<9,2,93>>,<<23,2,93>>,<<40,3,93>>,<<2,2,126>>,<<9,2,126>>,<<23,2,126>>,<<40,3,126>>,<<1,2,94>>,<<22,3,94>>,<<1,2,125>>,<<22,3,125>>,<<0,3,60>>,<<0,3,96>>,<<0,3,123>>,<<95,0,0>>>>,
    <<<<3,2,93>>,<<6,2,93>>,<<10,2,93>>,<<15,2,93>>,<<24,2,93>>,<<31,2,93>>,<<41,2,93>>,<<56,3,93>>,<<3,2,126>>,<<6,2,126>>,<<10,2,126>>,<<15,2,126>>,<<24,2,126>>,<<31,2,126>>,<<41,2,126>>,<<56,3,126>>>>,
    <<<<2,2,94>>,<<9,2,94>>,<<23,2,94>>,<<40,3,94>>,<<2,2,125>>,<<9,2,125>>,<<23,2,125>>,<<40,3,125>>,<<1,2,60>>,<<22,3,60>>,<<1,2,96>>,<<22,3,96>>,<<1,2,123>>,<<22,3,123>>,<<96,0,0>>,<<110,0,0>>>>,
    <<<<3,2,94>>,<<6,2,94>>,<<10,2,94>>,<<15,2,94>>,<<24,2,94>>,<<31,2,94>>,<<41,2,94>>,<<56,3,94>>,<<3,2,125>>,<<6,2,125>>,<<10,2,125>>,<<15,2,125>>,<<24,2,125>>,<<31,2,125>>,<<41,2,125>>,<<56,3,125>>>>,
    <<<<2,2,60>>,<<9,2,60>>,<<23,2,60>>,<<40,3,60>>,<<2,2,96>>,<<9,2,96>>,<<23,2,96>>,<<40,3,96>>,<<2,2,123>>,<<9,2,123>>,<<23,2,123>>,<<40,3,123>>,<<97,0,0>>,<<101,0,0>>,<<111,0,0>>,<<133,0,0>>>>,
    <<<<3,2,60>>,<<6,2,60>>,<<10,2,60>>,<<15,2,60>>,<<24,2,60>>,<<31,2,60>>,<<41,2,60>>,<<56,3,60>>,<<3,2,96>>,<<6,2,96>>,<<10,2,96>>,<<15,2,96>>,<<24,2,96>>,<<31,2,96>>,<<41,2,96>>,<<56,3,96>>>>,
    <<<<3,2,123>>,<<6,2,123>>,<<10,2,123>>,<<15,2,123>>,<<24,2,123>>,<<31,2,123>>,<<41,2,123>>,<<56,3,123>>,<<98,0,0>>,<<99,0,0>>,<<102,0,0>>,<<105,0,0>>,<<112,0,0>>,<<119,0,0>>,<<134,0,0>>,<<153,0,0>>>>,
    <<<<0,3,92>>,<<0,3,195>>,<<0,3,208>>,<<100,0,0>>,<<103,0,0>>,<<104,0,0>>,<<106,0,0>>,<<107,0,0>>,<<113,0,0>>,<<116,0,0>>,<<120,0,0>>,<<126,0,0>>,<<135,0,0>>,<<142,0,0>>,<<154,0,0>>,<<169,0,0>>>>,
    <<<<1,2,92>>,<<22,3,92>>,<<1,2,195>>,<<22,3,195>>,<<1,2,208>>,<<22,3,208>>,<<0,3,128>>,<<0,3,130>>,<<0,3,131>>,<<0,3,162>>,<<0,3,184>>,<<0,3,194>>,<<0,3,224>>,<<0,3,226>>,<<108,0,0>>,<<109,0,0>>>>,
    <<<<2,2,92>>,<<9,2,92>>,<<23,2,92>>,<<40,3,92>>,<<2,2,195>>,<<9,2,195>>,<<23,2,195>>,<<40,3,195>>,<<2,2,208>>,<<9,2,208>>,<<23,2,208>>,<<40,3,208>>,<<1,2,128>>,<<22,3,128>>,<<1,2,130>>,<<22,3,130>>>>,
    <<<<3,2,92>>,<<6,2,92>>,<<10,2,92>>,<<15,2,92>>,<<24,2,92>>,<<31,2,92>>,<<41,2,92>>,<<56,3,92>>,<<3,2,195>>,<<6,2,195>>,<<10,2,195>>,<<15,2,195>>,<<24,2,195>>,<<31,2,195>>,<<41,2,195>>,<<56,3,195>>>>,
    <<<<3,2,208>>,<<6,2,208>>,<<10,2,208>>,<<15,2,208>>,<<24,2,208>>,<<31,2,208>>,<<41,2,208>>,<<56,3,208>>,<<2,2,128>>,<<9,2,128>>,<<23,2,128>>,<<40,3,128>>,<<2,2,130>>,<<9,2,130>>,<<23,2,130>>,<<40,3,130>>>>,
    <<<<3,2,128>>,<<6,2,128>>,<<10,2,128>>,<<15,2,128>>,<<24,2,128>>,<<31,2,128>>,<<41,2,128>>,<<56,3,128>>,<<3,2,130>>,<<6,2,130>>,<<10,2,130>>,<<15,2,130>>,<<24,2,130>>,<<31,2,130>>,<<41,2,130>>,<<56,3,130>>>>,
    <<<<1,2,131>>,<<22,3,131>>,<<1,2,162>>,<<22,3,162>>,<<1,2,184>>,<<22,3,184>>,<<1,2,194>>,<<22,3,194>>,<<1,2,224>>,<<22,3,224>>,<<1,2,226>>,<<22,3,226>>,<<0,3,153>>,<<0,3,161>>,<<0,3,167>>,<<0,3,172>>>>,
    <<<<2,2,131>>,<<9,2,131>>,<<23,2,131>>,<<40,3,131>>,<<2,2,162>>,<<9,2,162>>,<<23,2,162>>,<<40,3,162>>,<<2,2,184>>,<<9,2,184>>,<<23,2,184>>,<<40,3,184>>,<<2,2,194>>,<<9,2,194>>,<<23,2,194>>,<<40,3,194>>>>,
    <<<<3,2,131>>,<<6,2,131>>,<<10,2,131>>,<<15,2,131>>,<<24,2,131>>,<<31,2,131>>,<<41,2,131>>,<<56,3,131>>,<<3,2,162>>,<<6,2,162>>,<<10,2,162>>,<<15,2,162>>,<<24,2,162>>,<<31,2,162>>,<<41,2,162>>,<<56,3,162>>>>,
    <<<<3,2,184>>,<<6,2,184>>,<<10,2,184>>,<<15,2,184>>,<<24,2,184>>,<<31,2,184>>,<<41,2,184>>,<<56,3,184>>,<<3,2,194>>,<<6,2,194>>,<<10,2,194>>,<<15,2,194>>,<<24,2,194>>,<<31,2,194>>,<<41,2,194>>,<<56,3,194>>>>,
    <<<<2,2,224>>,<<9,2,224>>,<<23,2,224>>,<<40,3,224>>,<<2,2,226>>,<<9,2,226>>,<<23,2,226>>,<<40,3,226>>,<<1,2,153>>,<<22,3,153>>,<<1,2,161>>,<<22,3,161>>,<<1,2,167>>,<<22,3,167>>,<<1,2,172>>,<<22,3,172>>>>,
    <<<<3,2,224>>,<<6,2,224>>,<<10,2,224>>,<<15,2,224>>,<<24,2,224>>,<<31,2,224>>,<<41,2,224>>,<<56,3,224>>,<<3,2,226>>,<<6,2,226>>,<<10,2,226>>,<<15,2,226>>,<<24,2,226>>,<<31,2,226>>,<<41,2,226>>,<<56,3,226>>>>,
    <<<<2,2,153>>,<<9,2,153>>,<<23,2,153>>,<<40,3,153>>,<<2,2,161>>,<<9,2,161>>,<<23,2,161>>,<<40,3,161>>,<<2,2,167>>,<<9,2,167>>,<<23,2,167>>,<<40,3,167>>,<<2,2,172>>,<<9,2,172>>,<<23,2,172>>,<<40,3,172>>>>,
    <<<<3,2,153>>,<<6,2,153>>,<<10,2,153>>,<<15,2,153>>,<<24,2,153>>,<<31,2,153>>,<<41,2,153>>,<<56,3,153>>,<<3,2,161>>,<<6,2,161>>,<<10,2,161>>,<<15,2,161>>,<<24,2,161>>,<<31,2,161>>,<<41,2,161>>,<<56,3,161>>>>,
    <<<<3,2,167>>,<<6,2,167>>,<<10,2,167>>,<<15,2,167>>,<<24,2,167>>,<<31,2,167>>,<<41,2,167>>,<<56,3,167>>,<<3,2,172>>,<<6,2,172>>,<<10,2,172>>,<<15,2,172>>,<<24,2,172>>,<<31,2,172>>,<<41,2,172>>,<<56,3,172>>>>,
    <<<<114,0,0>>,<<115,0,0>>,<<117,0,0>>,<<118,0,0>>,<<121,0,0>>,<<123,0,0>>,<<127,0,0>>,<<130,0,0>>,<<136,0,0>>,<<139,0,0>>,<<143,0,0>>,<<146,0,0>>,<<155,0,0>>,<<162,0,0>>,<<170,0,0>>,<<180,0,0>>>>,
    <<<<0,3,176>>,<<0,3,177>>,<<0,3,179>>,<<0,3,209>>,<<0,3,216>>,<<0,3,217>>,<<0,3,227>>,<<0,3,229>>,<<0,3,230>>,<<122,0,0>>,<<124,0,0>>,<<125,0,0>>,<<128,0,0>>,<<129,0,0>>,<<131,0,0>>,<<132,0,0>>>>,
    <<<<1,2,176>>,<<22,3,176>>,<<1,2,177>>,<<22,3,177>>,<<1,2,179>>,<<22,3,179>>,<<1,2,209>>,<<22,3,209>>,<<1,2,216>>,<<22,3,216>>,<<1,2,217>>,<<22,3,217>>,<<1,2,227>>,<<22,3,227>>,<<1,2,229>>,<<22,3,229>>>>,
    <<<<2,2,176>>,<<9,2,176>>,<<23,2,176>>,<<40,3,176>>,<<2,2,177>>,<<9,2,177>>,<<23,2,177>>,<<40,3,177>>,<<2,2,179>>,<<9,2,179>>,<<23,2,179>>,<<40,3,179>>,<<2,2,209>>,<<9,2,209>>,<<23,2,209>>,<<40,3,209>>>>,
    <<<<3,2,176>>,<<6,2,176>>,<<10,2,176>>,<<15,2,176>>,<<24,2,176>>,<<31,2,176>>,<<41,2,176>>,<<56,3,176>>,<<3,2,177>>,<<6,2,177>>,<<10,2,177>>,<<15,2,177>>,<<24,2,177>>,<<31,2,177>>,<<41,2,177>>,<<56,3,177>>>>,
    <<<<3,2,179>>,<<6,2,179>>,<<10,2,179>>,<<15,2,179>>,<<24,2,179>>,<<31,2,179>>,<<41,2,179>>,<<56,3,179>>,<<3,2,209>>,<<6,2,209>>,<<10,2,209>>,<<15,2,209>>,<<24,2,209>>,<<31,2,209>>,<<41,2,209>>,<<56,3,209>>>>,
    <<<<2,2,216>>,<<9,2,216>>,<<23,2,216>>,<<40,3,216>>,<<2,2,217>>,<<9,2,217>>,<<23,2,217>>,<<40,3,217>>,<<2,2,227>>,<<9,2,227>>,<<23,2,227>>,<<40,3,227>>,<<2,2,229>>,<<9,2,229>>,<<23,2,229>>,<<40,3,229>>>>,
    <<<<3,2,216>>,<<6,2,216>>,<<10,2,216>>,<<15,2,216>>,<<24,2,216>>,<<31,2,216>>,<<41,2,216>>,<<56,3,216>>,<<3,2,217>>,<<6,2,217>>,<<10,2,217>>,<<15,2,217>>,<<24,2,217>>,<<31,2,217>>,<<41,2,217>>,<<56,3,217>>>>,
    <<<<3,2,227>>,<<6,2,227>>,<<10,2,227>>,<<15,2,227>>,<<24,2,227>>,<<31,2,227>>,<<41,2,227>>,<<56,3,227>>,<<3,2,229>>,<<6,2,229>>,<<10,2,229>>,<<15,2,229>>,<<24,2,229>>,<<31,2,229>>,<<41,2,229>>,<<56,3,229>>>>,
    <<<<1,2,230>>,<<22,3,230>>,<<0,3,129>>,<<0,3,132>>,<<0,3,133>>,<<0,3,134>>,<<0,3,136>>,<<0,3,146>>,<<0,3,154>>,<<0,3,156>>,<<0,3,160>>,<<0,3,163>>,<<0,3,164>>,<<0,3,169>>,<<0,3,170>>,<<0,3,173>>>>,
    <<<<2,2,230>>,<<9,2,230>>,<<23,2,230>>,<<40,3,230>>,<<1,2,129>>,<<22,3,129>>,<<1,2,132>>,<<22,3,132>>,<<1,2,133>>,<<22,3,133>>,<<1,2,134>>,<<22,3,134>>,<<1,2,136>>,<<22,3,136>>,<<1,2,146>>,<<22,3,146>>>>,
    <<<<3,2,230>>,<<6,2,230>>,<<10,2,230>>,<<15,2,230>>,<<24,2,230>>,<<31,2,230>>,<<41,2,230>>,<<56,3,230>>,<<2,2,129>>,<<9,2,129>>,<<23,2,129>>,<<40,3,129>>,<<2,2,132>>,<<9,2,132>>,<<23,2,132>>,<<40,3,132>>>>,
    <<<<3,2,129>>,<<6,2,129>>,<<10,2,129>>,<<15,2,129>>,<<24,2,129>>,<<31,2,129>>,<<41,2,129>>,<<56,3,129>>,<<3,2,132>>,<<6,2,132>>,<<10,2,132>>,<<15,2,132>>,<<24,2,132>>,<<31,2,132>>,<<41,2,132>>,<<56,3,132>>>>,
    <<<<2,2,133>>,<<9,2,133>>,<<23,2,133>>,<<40,3,133>>,<<2,2,134>>,<<9,2,134>>,<<23,2,134>>,<<40,3,134>>,<<2,2,136>>,<<9,2,136>>,<<23,2,136>>,<<40,3,136>>,<<2,2,146>>,<<9,2,146>>,<<23,2,146>>,<<40,3,146>>>>,
    <<<<3,2,133>>,<<6,2,133>>,<<10,2,133>>,<<15,2,133>>,<<24,2,133>>,<<31,2,133>>,<<41,2,133>>,<<56,3,133>>,<<3,2,134>>,<<6,2,134>>,<<10,2,134>>,<<15,2,134>>,<<24,2,134>>,<<31,2,134>>,<<41,2,134>>,<<56,3,134>>>>,
    <<<<3,2,136>>,<<6,2,136>>,<<10,2,136>>,<<15,2,136>>,<<24,2,136>>,<<31,2,136>>,<<41,2,136>>,<<56,3,136>>,<<3,2,146>>,<<6,2,146>>,<<10,2,146>>,<<15,2,146>>,<<24,2,146>>,<<31,2,146>>,<<41,2,146>>,<<56,3,146>>>>,
    <<<<1,2,154>>,<<22,3,154>>,<<1,2,156>>,<<22,3,156>>,<<1,2,160>>,<<22,3,160>>,<<1,2,163>>,<<22,3,163>>,<<1,2,164>>,<<22,3,164>>,<<1,2,169>>,<<22,3,169>>,<<1,2,170>>,<<22,3,170>>,<<1,2,173>>,<<22,3,173>>>>,
    <<<<2,2,154>>,<<9,2,154>>,<<23,2,154>>,<<40,3,154>>,<<2,2,156>>,<<9,2,156>>,<<23,2,156>>,<<40,3,156>>,<<2,2,160>>,<<9,2,160>>,<<23,2,160>>,<<40,3,160>>,<<2,2,163>>,<<9,2,163>>,<<23,2,163>>,<<40,3,163>>>>,
    <<<<3,2,154>>,<<6,2,154>>,<<10,2,154>>,<<15,2,154>>,<<24,2,154>>,<<31,2,154>>,<<41,2,154>>,<<56,3,154>>,<<3,2,156>>,<<6,2,156>>,<<10,2,156>>,<<15,2,156>>,<<24,2,156>>,<<31,2,156>>,<<41,2,156>>,<<56,3,156>>>>,
    <<<<3,2,160>>,<<6,2,160>>,<<10,2,160>>,<<15,2,160>>,<<24,2,160>>,<<31,2,160>>,<<41,2,160>>,<<56,3,160>>,<<3,2,163>>,<<6,2,163>>,<<10,2,163>>,<<15,2,163>>,<<24,2,163>>,<<31,2,163>>,<<41,2,163>>,<<56,3,163>>>>,
    <<<<2,2,164>>,<<9,2,164>>,<<23,2,164>>,<<40,3,164>>,<<2,2,169>>,<<9,2,169>>,<<23,2,169>>,<<40,3,169>>,<<2,2,170>>,<<9,2,170>>,<<23,2,170>>,<<40,3,170>>,<<2,2,173>>,<<9,2,173>>,<<23,2,173>>,<<40,3,173>>>>,
    <<<<3,2,164>>,<<6,2,164>>,<<10,2,164>>,<<15,2,164>>,<<24,2,164>>,<<31,2,164>>,<<41,2,164>>,<<56,3,164>>,<<3,2,169>>,<<6,2,169>>,<<10,2,169>>,<<15,2,169>>,<<24,2,169>>,<<31,2,169>>,<<41,2,169>>,<<56,3,169>>>>,
    <<<<3,2,170>>,<<6,2,170>>,<<10,2,170>>,<<15,2,170>>,<<24,2,170>>,<<31,2,170>>,<<41,2,170>>,<<56,3,170>>,<<3,2,173>>,<<6,2,173>>,<<10,2,173>>,<<15,2,173>>,<<24,2,173>>,<<31,2,173>>,<<41,2,173>>,<<56,3,173>>>>,
    <<<<137,0,0>>,<<138,0,0>>,<<140,0,0>>,<<141,0,0>>,<<144,0,0>>,<<145,0,0>>,<<147,0,0>>,<<150,0,0>>,<<156,0,0>>,<<159,0,0>>,<<163,0,0>>,<<166,0,0>>,<<171,0,0>>,<<174,0,0>>,<<181,0,0>>,<<190,0,0>>>>,
    <<<<0,3,178>>,<<0,3,181>>,<<0,3,185>>,<<0,3,186>>,<<0,3,187>>,<<0,3,189>>,<<0,3,190>>,<<0,3,196>>,<<0,3,198>>,<<0,3,228>>,<<0,3,232>>,<<0,3,233>>,<<148,0,0>>,<<149,0,0>>,<<151,0,0>>,<<152,0,0>>>>,
    <<<<1,2,178>>,<<22,3,178>>,<<1,2,181>>,<<22,3,181>>,<<1,2,185>>,<<22,3,185>>,<<1,2,186>>,<<22,3,186>>,<<1,2,187>>,<<22,3,187>>,<<1,2,189>>,<<22,3,189>>,<<1,2,190>>,<<22,3,190>>,<<1,2,196>>,<<22,3,196>>>>,
    <<<<2,2,178>>,<<9,2,178>>,<<23,2,178>>,<<40,3,178>>,<<2,2,181>>,<<9,2,181>>,<<23,2,181>>,<<40,3,181>>,<<2,2,185>>,<<9,2,185>>,<<23,2,185>>,<<40,3,185>>,<<2,2,186>>,<<9,2,186>>,<<23,2,186>>,<<40,3,186>>>>,
    <<<<3,2,178>>,<<6,2,178>>,<<10,2,178>>,<<15,2,178>>,<<24,2,178>>,<<31,2,178>>,<<41,2,178>>,<<56,3,178>>,<<3,2,181>>,<<6,2,181>>,<<10,2,181>>,<<15,2,181>>,<<24,2,181>>,<<31,2,181>>,<<41,2,181>>,<<56,3,181>>>>,
    <<<<3,2,185>>,<<6,2,185>>,<<10,2,185>>,<<15,2,185>>,<<24,2,185>>,<<31,2,185>>,<<41,2,185>>,<<56,3,185>>,<<3,2,186>>,<<6,2,186>>,<<10,2,186>>,<<15,2,186>>,<<24,2,186>>,<<31,2,186>>,<<41,2,186>>,<<56,3,186>>>>,
    <<<<2,2,187>>,<<9,2,187>>,<<23,2,187>>,<<40,3,187>>,<<2,2,189>>,<<9,2,189>>,<<23,2,189>>,<<40,3,189>>,<<2,2,190>>,<<9,2,190>>,<<23,2,190>>,<<40,3,190>>,<<2,2,196>>,<<9,2,196>>,<<23,2,196>>,<<40,3,196>>>>,
    <<<<3,2,187>>,<<6,2,187>>,<<10,2,187>>,<<15,2,187>>,<<24,2,187>>,<<31,2,187>>,<<41,2,187>>,<<56,3,187>>,<<3,2,189>>,<<6,2,189>>,<<10,2,189>>,<<15,2,189>>,<<24,2,189>>,<<31,2,189>>,<<41,2,189>>,<<56,3,189>>>>,
    <<<<3,2,190>>,<<6,2,190>>,<<10,2,190>>,<<15,2,190>>,<<24,2,190>>,<<31,2,190>>,<<41,2,190>>,<<56,3,190>>,<<3,2,196>>,<<6,2,196>>,<<10,2,196>>,<<15,2,196>>,<<24,2,196>>,<<31,2,196>>,<<41,2,196>>,<<56,3,196>>>>,
    <<<<1,2,198>>,<<22,3,198>>,<<1,2,228>>,<<22,3,228>>,<<1,2,232>>,<<22,3,232>>,<<1,2,233>>,<<22,3,233>>,<<0,3,1>>,<<0,3,135>>,<<0,3,137>>,<<0,3,138>>,<<0,3,139>>,<<0,3,140>>,<<0,3,141>>,<<0,3,143>>>>,
    <<<<2,2,198>>,<<9,2,198>>,<<23,2,198>>,<<40,3,198>>,<<2,2,228>>,<<9,2,228>>,<<23,2,228>>,<<40,3,228>>,<<2,2,232>>,<<9,2,232>>,<<23,2,232>>,<<40,3,232>>,<<2,2,233>>,<<9,2,233>>,<<23,2,233>>,<<40,3,233>>>>,
    <<<<3,2,198>>,<<6,2,198>>,<<10,2,198>>,<<15,2,198>>,<<24,2,198>>,<<31,2,198>>,<<41,2,198>>,<<56,3,198>>,<<3,2,228>>,<<6,2,228>>,<<10,2,228>>,<<15,2,228>>,<<24,2,228>>,<<31,2,228>>,<<41,2,228>>,<<56,3,228>>>>,
    <<<<3,2,232>>,<<6,2,232>>,<<10,2,232>>,<<15,2,232>>,<<24,2,232>>,<<31,2,232>>,<<41,2,232>>,<<56,3,232>>,<<3,2,233>>,<<6,2,233>>,<<10,2,233>>,<<15,2,233>>,<<24,2,233>>,<<31,2,233>>,<<41,2,233>>,<<56,3,233>>>>,
    <<<<1,2,1>>,<<22,3,1>>,<<1,2,135>>,<<22,3,135>>,<<1,2,137>>,<<22,3,137>>,<<1,2,138>>,<<22,3,138>>,<<1,2,139>>,<<22,3,139>>,<<1,2,140>>,<<22,3,140>>,<<1,2,141>>,<<22,3,141>>,<<1,2,143>>,<<22,3,143>>>>,
    <<<<2,2,1>>,<<9,2,1>>,<<23,2,1>>,<<40,3,1>>,<<2,2,135>>,<<9,2,135>>,<<23,2,135>>,<<40,3,135>>,<<2,2,137>>,<<9,2,137>>,<<23,2,137>>,<<40,3,137>>,<<2,2,138>>,<<9,2,138>>,<<23,2,138>>,<<40,3,138>>>>,
    <<<<3,2,1>>,<<6,2,1>>,<<10,2,1>>,<<15,2,1>>,<<24,2,1>>,<<31,2,1>>,<<41,2,1>>,<<56,3,1>>,<<3,2,135>>,<<6,2,135>>,<<10,2,135>>,<<15,2,135>>,<<24,2,135>>,<<31,2,135>>,<<41,2,135>>,<<56,3,135>>>>,
    <<<<3,2,137>>,<<6,2,137>>,<<10,2,137>>,<<15,2,137>>,<<24,2,137>>,<<31,2,137>>,<<41,2,137>>,<<56,3,137>>,<<3,2,138>>,<<6,2,138>>,<<10,2,138>>,<<15,2,138>>,<<24,2,138>>,<<31,2,138>>,<<41,2,138>>,<<56,3,138>>>>,
    <<<<2,2,139>>,<<9,2,139>>,<<23,2,139>>,<<40,3,139>>,<<2,2,140>>,<<9,2,140>>,<<23,2,140>>,<<40,3,140>>,<<2,2,141>>,<<9,2,141>>,<<23,2,141>>,<<40,3,141>>,<<2,2,143>>,<<9,2,143>>,<<23,2,143>>,<<40,3,143>>>>,
    <<<<3,2,139>>,<<6,2,139>>,<<10,2,139>>,<<15,2,139>>,<<24,2,139>>,<<31,2,139>>,<<41,2,139>>,<<56,3,139>>,<<3,2,140>>,<<6,2,140>>,<<10,2,140>>,<<15,2,140>>,<<24,2,140>>,<<31,2,140>>,<<41,2,140>>,<<56,3,140>>>>,
    <<<<3,2,141>>,<<6,2,141>>,<<10,2,141>>,<<15,2,141>>,<<24,2,141>>,<<31,2,141>>,<<41,2,141>>,<<56,3,141>>,<<3,2,143>>,<<6,2,143>>,<<10,2,143>>,<<15,2,143>>,<<24,2,143>>,<<31,2,143>>,<<41,2,143>>,<<56,3,143>>>>,
    <<<<157,0,0>>,<<158,0,0>>,<<160,0,0>>,<<161,0,0>>,<<164,0,0>>,<<165,0,0>>,<<167,0,0>>,<<168,0,0>>,<<172,0,0>>,<<173,0,0>>,<<175,0,0>>,<<177,0,0>>,<<182,0,0>>,<<185,0,0>>,<<191,0,0>>,<<207,0,0>>>>,
    <<<<0,3,147>>,<<0,3,149>>,<<0,3,150>>,<<0,3,151>>,<<0,3,152>>,<<0,3,155>>,<<0,3,157>>,<<0,3,158>>,<<0,3,165>>,<<0,3,166>>,<<0,3,168>>,<<0,3,174>>,<<0,3,175>>,<<0,3,180>>,<<0,3,182>>,<<0,3,183>>>>,
    <<<<1,2,147>>,<<22,3,147>>,<<1,2,149>>,<<22,3,149>>,<<1,2,150>>,<<22,3,150>>,<<1,2,151>>,<<22,3,151>>,<<1,2,152>>,<<22,3,152>>,<<1,2,155>>,<<22,3,155>>,<<1,2,157>>,<<22,3,157>>,<<1,2,158>>,<<22,3,158>>>>,
    <<<<2,2,147>>,<<9,2,147>>,<<23,2,147>>,<<40,3,147>>,<<2,2,149>>,<<9,2,149>>,<<23,2,149>>,<<40,3,149>>,<<2,2,150>>,<<9,2,150>>,<<23,2,150>>,<<40,3,150>>,<<2,2,151>>,<<9,2,151>>,<<23,2,151>>,<<40,3,151>>>>,
    <<<<3,2,147>>,<<6,2,147>>,<<10,2,147>>,<<15,2,147>>,<<24,2,147>>,<<31,2,147>>,<<41,2,147>>,<<56,3,147>>,<<3,2,149>>,<<6,2,149>>,<<10,2,149>>,<<15,2,149>>,<<24,2,149>>,<<31,2,149>>,<<41,2,149>>,<<56,3,149>>>>,
    <<<<3,2,150>>,<<6,2,150>>,<<10,2,150>>,<<15,2,150>>,<<24,2,150>>,<<31,2,150>>,<<41,2,150>>,<<56,3,150>>,<<3,2,151>>,<<6,2,151>>,<<10,2,151>>,<<15,2,151>>,<<24,2,151>>,<<31,2,151>>,<<41,2,151>>,<<56,3,151>>>>,
    <<<<2,2,152>>,<<9,2,152>>,<<23,2,152>>,<<40,3,152>>,<<2,2,155>>,<<9,2,155>>,<<23,2,155>>,<<40,3,155>>,<<2,2,157>>,<<9,2,157>>,<<23,2,157>>,<<40,3,157>>,<<2,2,158>>,<<9,2,158>>,<<23,2,158>>,<<40,3,158>>>>,
    <<<<3,2,152>>,<<6,2,152>>,<<10,2,152>>,<<15,2,152>>,<<24,2,152>>,<<31,2,152>>,<<41,2,152>>,<<56,3,152>>,<<3,2,155>>,<<6,2,155>>,<<10,2,155>>,<<15,2,155>>,<<24,2,155>>,<<31,2,155>>,<<41,2,155>>,<<56,3,155>>>>,
    <<<<3,2,157>>,<<6,2,157>>,<<10,2,157>>,<<15,2,157>>,<<24,2,157>>,<<31,2,157>>,<<41,2,157>>,<<56,3,157>>,<<3,2,158>>,<<6,2,158>>,<<10,2,158>>,<<15,2,158>>,<<24,2,158>>,<<31,2,158>>,<<41,2,158>>,<<56,3,158>>>>,
    <<<<1,2,165>>,<<22,3,165>>,<<1,2,166>>,<<22,3,166>>,<<1,2,168>>,<<22,3,168>>,<<1,2,174>>,<<22,3,174>>,<<1,2,175>>,<<22,3,175>>,<<1,2,180>>,<<22,3,180>>,<<1,2,182>>,<<22,3,182>>,<<1,2,183>>,<<22,3,183>>>>,
    <<<<2,2,165>>,<<9,2,165>>,<<23,2,165>>,<<40,3,165>>,<<2,2,166>>,<<9,2,166>>,<<23,2,166>>,<<40,3,166>>,<<2,2,168>>,<<9,2,168>>,<<23,2,168>>,<<40,3,168>>,<<2,2,174>>,<<9,2,174>>,<<23,2,174>>,<<40,3,174>>>>,
    <<<<3,2,165>>,<<6,2,165>>,<<10,2,165>>,<<15,2,165>>,<<24,2,165>>,<<31,2,165>>,<<41,2,165>>,<<56,3,165>>,<<3,2,166>>,<<6,2,166>>,<<10,2,166>>,<<15,2,166>>,<<24,2,166>>,<<31,2,166>>,<<41,2,166>>,<<56,3,166>>>>,
    <<<<3,2,168>>,<<6,2,168>>,<<10,2,168>>,<<15,2,168>>,<<24,2,168>>,<<31,2,168>>,<<41,2,168>>,<<56,3,168>>,<<3,2,174>>,<<6,2,174>>,<<10,2,174>>,<<15,2,174>>,<<24,2,174>>,<<31,2,174>>,<<41,2,174>>,<<56,3,174>>>>,
    <<<<2,2,175>>,<<9,2,175>>,<<23,2,175>>,<<40,3,175>>,<<2,2,180>>,<<9,2,180>>,<<23,2,180>>,<<40,3,180>>,<<2,2,182>>,<<9,2,182>>,<<23,2,182>>,<<40,3,182>>,<<2,2,183>>,<<9,2,183>>,<<23,2,183>>,<<40,3,183>>>>,
    <<<<3,2,175>>,<<6,2,175>>,<<10,2,175>>,<<15,2,175>>,<<24,2,175>>,<<31,2,175>>,<<41,2,175>>,<<56,3,175>>,<<3,2,180>>,<<6,2,180>>,<<10,2,180>>,<<15,2,180>>,<<24,2,180>>,<<31,2,180>>,<<41,2,180>>,<<56,3,180>>>>,
    <<<<3,2,182>>,<<6,2,182>>,<<10,2,182>>,<<15,2,182>>,<<24,2,182>>,<<31,2,182>>,<<41,2,182>>,<<56,3,182>>,<<3,2,183>>,<<6,2,183>>,<<10,2,183>>,<<15,2,183>>,<<24,2,183>>,<<31,2,183>>,<<41,2,183>>,<<56,3,183>>>>,
    <<<<0,3,188>>,<<0,3,191>>,<<0,3,197>>,<<0,3,231>>,<<0,3,239>>,<<176,0,0>>,<<178,0,0>>,<<179,0,0>>,<<183,0,0>>,<<184,0,0>>,<<186,0,0>>,<<187,0,0>>,<<192,0,0>>,<<199,0,0>>,<<208,0,0>>,<<223,0,0>>>>,
    <<<<1,2,188>>,<<22,3,188>>,<<1,2,191>>,<<22,3,191>>,<<1,2,197>>,<<22,3,197>>,<<1,2,231>>,<<22,3,231>>,<<1,2,239>>,<<22,3,239>>,<<0,3,9>>,<<0,3,142>>,<<0,3,144>>,<<0,3,145>>,<<0,3,148>>,<<0,3,159>>>>,
    <<<<2,2,188>>,<<9,2,188>>,<<23,2,188>>,<<40,3,188>>,<<2,2,191>>,<<9,2,191>>,<<23,2,191>>,<<40,3,191>>,<<2,2,197>>,<<9,2,197>>,<<23,2,197>>,<<40,3,197>>,<<2,2,231>>,<<9,2,231>>,<<23,2,231>>,<<40,3,231>>>>,
    <<<<3,2,188>>,<<6,2,188>>,<<10,2,188>>,<<15,2,188>>,<<24,2,188>>,<<31,2,188>>,<<41,2,188>>,<<56,3,188>>,<<3,2,191>>,<<6,2,191>>,<<10,2,191>>,<<15,2,191>>,<<24,2,191>>,<<31,2,191>>,<<41,2,191>>,<<56,3,191>>>>,
    <<<<3,2,197>>,<<6,2,197>>,<<10,2,197>>,<<15,2,197>>,<<24,2,197>>,<<31,2,197>>,<<41,2,197>>,<<56,3,197>>,<<3,2,231>>,<<6,2,231>>,<<10,2,231>>,<<15,2,231>>,<<24,2,231>>,<<31,2,231>>,<<41,2,231>>,<<56,3,231>>>>,
    <<<<2,2,239>>,<<9,2,239>>,<<23,2,239>>,<<40,3,239>>,<<1,2,9>>,<<22,3,9>>,<<1,2,142>>,<<22,3,142>>,<<1,2,144>>,<<22,3,144>>,<<1,2,145>>,<<22,3,145>>,<<1,2,148>>,<<22,3,148>>,<<1,2,159>>,<<22,3,159>>>>,
    <<<<3,2,239>>,<<6,2,239>>,<<10,2,239>>,<<15,2,239>>,<<24,2,239>>,<<31,2,239>>,<<41,2,239>>,<<56,3,239>>,<<2,2,9>>,<<9,2,9>>,<<23,2,9>>,<<40,3,9>>,<<2,2,142>>,<<9,2,142>>,<<23,2,142>>,<<40,3,142>>>>,
    <<<<3,2,9>>,<<6,2,9>>,<<10,2,9>>,<<15,2,9>>,<<24,2,9>>,<<31,2,9>>,<<41,2,9>>,<<56,3,9>>,<<3,2,142>>,<<6,2,142>>,<<10,2,142>>,<<15,2,142>>,<<24,2,142>>,<<31,2,142>>,<<41,2,142>>,<<56,3,142>>>>,
    <<<<2,2,144>>,<<9,2,144>>,<<23,2,144>>,<<40,3,144>>,<<2,2,145>>,<<9,2,145>>,<<23,2,145>>,<<40,3,145>>,<<2,2,148>>,<<9,2,148>>,<<23,2,148>>,<<40,3,148>>,<<2,2,159>>,<<9,2,159>>,<<23,2,159>>,<<40,3,159>>>>,
    <<<<3,2,144>>,<<6,2,144>>,<<10,2,144>>,<<15,2,144>>,<<24,2,144>>,<<31,2,144>>,<<41,2,144>>,<<56,3,144>>,<<3,2,145>>,<<6,2,145>>,<<10,2,145>>,<<15,2,145>>,<<24,2,145>>,<<31,2,145>>,<<41,2,145>>,<<56,3,145>>>>,
    <<<<3,2,148>>,<<6,2,148>>,<<10,2,148>>,<<15,2,148>>,<<24,2,148>>,<<31,2,148>>,<<41,2,148>>,<<56,3,148>>,<<3,2,159>>,<<6,2,159>>,<<10,2,159>>,<<15,2,159>>,<<24,2,159>>,<<31,2,159>>,<<41,2,159>>,<<56,3,159>>>>,
    <<<<0,3,171>>,<<0,3,206>>,<<0,3,215>>,<<0,3,225>>,<<0,3,236>>,<<0,3,237>>,<<188,0,0>>,<<189,0,0>>,<<193,0,0>>,<<196,0,0>>,<<200,0,0>>,<<203,0,0>>,<<209,0,0>>,<<216,0,0>>,<<224,0,0>>,<<238,0,0>>>>,
    <<<<1,2,171>>,<<22,3,171>>,<<1,2,206>>,<<22,3,206>>,<<1,2,215>>,<<22,3,215>>,<<1,2,225>>,<<22,3,225>>,<<1,2,236>>,<<22,3,236>>,<<1,2,237>>,<<22,3,237>>,<<0,3,199>>,<<0,3,207>>,<<0,3,234>>,<<0,3,235>>>>,
    <<<<2,2,171>>,<<9,2,171>>,<<23,2,171>>,<<40,3,171>>,<<2,2,206>>,<<9,2,206>>,<<23,2,206>>,<<40,3,206>>,<<2,2,215>>,<<9,2,215>>,<<23,2,215>>,<<40,3,215>>,<<2,2,225>>,<<9,2,225>>,<<23,2,225>>,<<40,3,225>>>>,
    <<<<3,2,171>>,<<6,2,171>>,<<10,2,171>>,<<15,2,171>>,<<24,2,171>>,<<31,2,171>>,<<41,2,171>>,<<56,3,171>>,<<3,2,206>>,<<6,2,206>>,<<10,2,206>>,<<15,2,206>>,<<24,2,206>>,<<31,2,206>>,<<41,2,206>>,<<56,3,206>>>>,
    <<<<3,2,215>>,<<6,2,215>>,<<10,2,215>>,<<15,2,215>>,<<24,2,215>>,<<31,2,215>>,<<41,2,215>>,<<56,3,215>>,<<3,2,225>>,<<6,2,225>>,<<10,2,225>>,<<15,2,225>>,<<24,2,225>>,<<31,2,225>>,<<41,2,225>>,<<56,3,225>>>>,
    <<<<2,2,236>>,<<9,2,236>>,<<23,2,236>>,<<40,3,236>>,<<2,2,237>>,<<9,2,237>>,<<23,2,237>>,<<40,3,237>>,<<1,2,199>>,<<22,3,199>>,<<1,2,207>>,<<22,3,207>>,<<1,2,234>>,<<22,3,234>>,<<1,2,235>>,<<22,3,235>>>>,
    <<<<3,2,236>>,<<6,2,236>>,<<10,2,236>>,<<15,2,236>>,<<24,2,236>>,<<31,2,236>>,<<41,2,236>>,<<56,3,236>>,<<3,2,237>>,<<6,2,237>>,<<10,2,237>>,<<15,2,237>>,<<24,2,237>>,<<31,2,237>>,<<41,2,237>>,<<56,3,237>>>>,
    <<<<2,2,199>>,<<9,2,199>>,<<23,2,199>>,<<40,3,199>>,<<2,2,207>>,<<9,2,207>>,<<23,2,207>>,<<40,3,207>>,<<2,2,234>>,<<9,2,234>>,<<23,2,234>>,<<40,3,234>>,<<2,2,235>>,<<9,2,235>>,<<23,2,235>>,<<40,3,235>>>>,
    <<<<3,2,199>>,<<6,2,199>>,<<10,2,199>>,<<15,2,199>>,<<24,2,199>>,<<31,2,199>>,<<41,2,199>>,<<56,3,199>>,<<3,2,207>>,<<6,2,207>>,<<10,2,207>>,<<15,2,207>>,<<24,2,207>>,<<31,2,207>>,<<41,2,207>>,<<56,3,207>>>>,
    <<<<3,2,234>>,<<6,2,234>>,<<10,2,234>>,<<15,2,234>>,<<24,2,234>>,<<31,2,234>>,<<41,2,234>>,<<56,3,234>>,<<3,2,235>>,<<6,2,235>>,<<10,2,235>>,<<15,2,235>>,<<24,2,235>>,<<31,2,235>>,<<41,2,235>>,<<56,3,235>>>>,
    <<<<194,0,0>>,<<195,0,0>>,<<197,0,0>>,<<198,0,0>>,<<201,0,0>>,<<202,0,0>>,<<204,0,0>>,<<205,0,0>>,<<210,0,0>>,<<213,0,0>>,<<217,0,0>>,<<220,0,0>>,<<225,0,0>>,<<231,0,0>>,<<239,0,0>>,<<246,0,0>>>>,
    <<<<0,3,192>>,<<0,3,193>>,<<0,3,200>>,<<0,3,201>>,<<0,3,202>>,<<0,3,205>>,<<0,3,210>>,<<0,3,213>>,<<0,3,218>>,<<0,3,219>>,<<0,3,238>>,<<0,3,240>>,<<0,3,242>>,<<0,3,243>>,<<0,3,255>>,<<206,0,0>>>>,
    <<<<1,2,192>>,<<22,3,192>>,<<1,2,193>>,<<22,3,193>>,<<1,2,200>>,<<22,3,200>>,<<1,2,201>>,<<22,3,201>>,<<1,2,202>>,<<22,3,202>>,<<1,2,205>>,<<22,3,205>>,<<1,2,210>>,<<22,3,210>>,<<1,2,213>>,<<22,3,213>>>>,
    <<<<2,2,192>>,<<9,2,192>>,<<23,2,192>>,<<40,3,192>>,<<2,2,193>>,<<9,2,193>>,<<23,2,193>>,<<40,3,193>>,<<2,2,200>>,<<9,2,200>>,<<23,2,200>>,<<40,3,200>>,<<2,2,201>>,<<9,2,201>>,<<23,2,201>>,<<40,3,201>>>>,
    <<<<3,2,192>>,<<6,2,192>>,<<10,2,192>>,<<15,2,192>>,<<24,2,192>>,<<31,2,192>>,<<41,2,192>>,<<56,3,192>>,<<3,2,193>>,<<6,2,193>>,<<10,2,193>>,<<15,2,193>>,<<24,2,193>>,<<31,2,193>>,<<41,2,193>>,<<56,3,193>>>>,
    <<<<3,2,200>>,<<6,2,200>>,<<10,2,200>>,<<15,2,200>>,<<24,2,200>>,<<31,2,200>>,<<41,2,200>>,<<56,3,200>>,<<3,2,201>>,<<6,2,201>>,<<10,2,201>>,<<15,2,201>>,<<24,2,201>>,<<31,2,201>>,<<41,2,201>>,<<56,3,201>>>>,
    <<<<2,2,202>>,<<9,2,202>>,<<23,2,202>>,<<40,3,202>>,<<2,2,205>>,<<9,2,205>>,<<23,2,205>>,<<40,3,205>>,<<2,2,210>>,<<9,2,210>>,<<23,2,210>>,<<40,3,210>>,<<2,2,213>>,<<9,2,213>>,<<23,2,213>>,<<40,3,213>>>>,
    <<<<3,2,202>>,<<6,2,202>>,<<10,2,202>>,<<15,2,202>>,<<24,2,202>>,<<31,2,202>>,<<41,2,202>>,<<56,3,202>>,<<3,2,205>>,<<6,2,205>>,<<10,2,205>>,<<15,2,205>>,<<24,2,205>>,<<31,2,205>>,<<41,2,205>>,<<56,3,205>>>>,
    <<<<3,2,210>>,<<6,2,210>>,<<10,2,210>>,<<15,2,210>>,<<24,2,210>>,<<31,2,210>>,<<41,2,210>>,<<56,3,210>>,<<3,2,213>>,<<6,2,213>>,<<10,2,213>>,<<15,2,213>>,<<24,2,213>>,<<31,2,213>>,<<41,2,213>>,<<56,3,213>>>>,
    <<<<1,2,218>>,<<22,3,218>>,<<1,2,219>>,<<22,3,219>>,<<1,2,238>>,<<22,3,238>>,<<1,2,240>>,<<22,3,240>>,<<1,2,242>>,<<22,3,242>>,<<1,2,243>>,<<22,3,243>>,<<1,2,255>>,<<22,3,255>>,<<0,3,203>>,<<0,3,204>>>>,
    <<<<2,2,218>>,<<9,2,218>>,<<23,2,218>>,<<40,3,218>>,<<2,2,219>>,<<9,2,219>>,<<23,2,219>>,<<40,3,219>>,<<2,2,238>>,<<9,2,238>>,<<23,2,238>>,<<40,3,238>>,<<2,2,240>>,<<9,2,240>>,<<23,2,240>>,<<40,3,240>>>>,
    <<<<3,2,218>>,<<6,2,218>>,<<10,2,218>>,<<15,2,218>>,<<24,2,218>>,<<31,2,218>>,<<41,2,218>>,<<56,3,218>>,<<3,2,219>>,<<6,2,219>>,<<10,2,219>>,<<15,2,219>>,<<24,2,219>>,<<31,2,219>>,<<41,2,219>>,<<56,3,219>>>>,
    <<<<3,2,238>>,<<6,2,238>>,<<10,2,238>>,<<15,2,238>>,<<24,2,238>>,<<31,2,238>>,<<41,2,238>>,<<56,3,238>>,<<3,2,240>>,<<6,2,240>>,<<10,2,240>>,<<15,2,240>>,<<24,2,240>>,<<31,2,240>>,<<41,2,240>>,<<56,3,240>>>>,
    <<<<2,2,242>>,<<9,2,242>>,<<23,2,242>>,<<40,3,242>>,<<2,2,243>>,<<9,2,243>>,<<23,2,243>>,<<40,3,243>>,<<2,2,255>>,<<9,2,255>>,<<23,2,255>>,<<40,3,255>>,<<1,2,203>>,<<22,3,203>>,<<1,2,204>>,<<22,3,204>>>>,
    <<<<3,2,242>>,<<6,2,242>>,<<10,2,242>>,<<15,2,242>>,<<24,2,242>>,<<31,2,242>>,<<41,2,242>>,<<56,3,242>>,<<3,2,243>>,<<6,2,243>>,<<10,2,243>>,<<15,2,243>>,<<24,2,243>>,<<31,2,243>>,<<41,2,243>>,<<56,3,243>>>>,
    <<<<3,2,255>>,<<6,2,255>>,<<10,2,255>>,<<15,2,255>>,<<24,2,255>>,<<31,2,255>>,<<41,2,255>>,<<56,3,255>>,<<2,2,203>>,<<9,2,203>>,<<23,2,203>>,<<40,3,203>>,<<2,2,204>>,<<9,2,204>>,<<23,2,204>>,<<40,3,204>>>>,
    <<<<3,2,203>>,<<6,2,203>>,<<10,2,203>>,<<15,2,203>>,<<24,2,203>>,<<31,2,203>>,<<41,2,203>>,<<56,3,203>>,<<3,2,204>>,<<6,2,204>>,<<10,2,204>>,<<15,2,204>>,<<24,2,204>>,<<31,2,204>>,<<41,2,204>>,<<56,3,204>>>>,
    <<<<211,0,0>>,<<212,0,0>>,<<214,0,0>>,<<215,0,0>>,<<218,0,0>>,<<219,0,0>>,<<221,0,0>>,<<222,0,0>>,<<226,0,0>>,<<228,0,0>>,<<232,0,0>>,<<235,0,0>>,<<240,0,0>>,<<243,0,0>>,<<247,0,0>>,<<250,0,0>>>>,
    <<<<0,3,211>>,<<0,3,212>>,<<0,3,214>>,<<0,3,221>>,<<0,3,222>>,<<0,3,223>>,<<0,3,241>>,<<0,3,244>>,<<0,3,245>>,<<0,3,246>>,<<0,3,247>>,<<0,3,248>>,<<0,3,250>>,<<0,3,251>>,<<0,3,252>>,<<0,3,253>>>>,
    <<<<1,2,211>>,<<22,3,211>>,<<1,2,212>>,<<22,3,212>>,<<1,2,214>>,<<22,3,214>>,<<1,2,221>>,<<22,3,221>>,<<1,2,222>>,<<22,3,222>>,<<1,2,223>>,<<22,3,223>>,<<1,2,241>>,<<22,3,241>>,<<1,2,244>>,<<22,3,244>>>>,
    <<<<2,2,211>>,<<9,2,211>>,<<23,2,211>>,<<40,3,211>>,<<2,2,212>>,<<9,2,212>>,<<23,2,212>>,<<40,3,212>>,<<2,2,214>>,<<9,2,214>>,<<23,2,214>>,<<40,3,214>>,<<2,2,221>>,<<9,2,221>>,<<23,2,221>>,<<40,3,221>>>>,
    <<<<3,2,211>>,<<6,2,211>>,<<10,2,211>>,<<15,2,211>>,<<24,2,211>>,<<31,2,211>>,<<41,2,211>>,<<56,3,211>>,<<3,2,212>>,<<6,2,212>>,<<10,2,212>>,<<15,2,212>>,<<24,2,212>>,<<31,2,212>>,<<41,2,212>>,<<56,3,212>>>>,
    <<<<3,2,214>>,<<6,2,214>>,<<10,2,214>>,<<15,2,214>>,<<24,2,214>>,<<31,2,214>>,<<41,2,214>>,<<56,3,214>>,<<3,2,221>>,<<6,2,221>>,<<10,2,221>>,<<15,2,221>>,<<24,2,221>>,<<31,2,221>>,<<41,2,221>>,<<56,3,221>>>>,
    <<<<2,2,222>>,<<9,2,222>>,<<23,2,222>>,<<40,3,222>>,<<2,2,223>>,<<9,2,223>>,<<23,2,223>>,<<40,3,223>>,<<2,2,241>>,<<9,2,241>>,<<23,2,241>>,<<40,3,241>>,<<2,2,244>>,<<9,2,244>>,<<23,2,244>>,<<40,3,244>>>>,
    <<<<3,2,222>>,<<6,2,222>>,<<10,2,222>>,<<15,2,222>>,<<24,2,222>>,<<31,2,222>>,<<41,2,222>>,<<56,3,222>>,<<3,2,223>>,<<6,2,223>>,<<10,2,223>>,<<15,2,223>>,<<24,2,223>>,<<31,2,223>>,<<41,2,223>>,<<56,3,223>>>>,
    <<<<3,2,241>>,<<6,2,241>>,<<10,2,241>>,<<15,2,241>>,<<24,2,241>>,<<31,2,241>>,<<41,2,241>>,<<56,3,241>>,<<3,2,244>>,<<6,2,244>>,<<10,2,244>>,<<15,2,244>>,<<24,2,244>>,<<31,2,244>>,<<41,2,244>>,<<56,3,244>>>>,
    <<<<1,2,245>>,<<22,3,245>>,<<1,2,246>>,<<22,3,246>>,<<1,2,247>>,<<22,3,247>>,<<1,2,248>>,<<22,3,248>>,<<1,2,250>>,<<22,3,250>>,<<1,2,251>>,<<22,3,251>>,<<1,2,252>>,<<22,3,252>>,<<1,2,253>>,<<22,3,253>>>>,
    <<<<2,2,245>>,<<9,2,245>>,<<23,2,245>>,<<40,3,245>>,<<2,2,246>>,<<9,2,246>>,<<23,2,246>>,<<40,3,246>>,<<2,2,247>>,<<9,2,247>>,<<23,2,247>>,<<40,3,247>>,<<2,2,248>>,<<9,2,248>>,<<23,2,248>>,<<40,3,248>>>>,
    <<<<3,2,245>>,<<6,2,245>>,<<10,2,245>>,<<15,2,245>>,<<24,2,245>>,<<31,2,245>>,<<41,2,245>>,<<56,3,245>>,<<3,2,246>>,<<6,2,246>>,<<10,2,246>>,<<15,2,246>>,<<24,2,246>>,<<31,2,246>>,<<41,2,246>>,<<56,3,246>>>>,
    <<<<3,2,247>>,<<6,2,247>>,<<10,2,247>>,<<15,2,247>>,<<24,2,247>>,<<31,2,247>>,<<41,2,247>>,<<56,3,247>>,<<3,2,248>>,<<6,2,248>>,<<10,2,248>>,<<15,2,248>>,<<24,2,248>>,<<31,2,248>>,<<41,2,248>>,<<56,3,248>>>>,
    <<<<2,2,250>>,<<9,2,250>>,<<23,2,250>>,<<40,3,250>>,<<2,2,251>>,<<9,2,251>>,<<23,2,251>>,<<40,3,251>>,<<2,2,252>>,<<9,2,252>>,<<23,2,252>>,<<40,3,252>>,<<2,2,253>>,<<9,2,253>>,<<23,2,253>>,<<40,3,253>>>>,
    <<<<3,2,250>>,<<6,2,250>>,<<10,2,250>>,<<15,2,250>>,<<24,2,250>>,<<31,2,250>>,<<41,2,250>>,<<56,3,250>>,<<3,2,251>>,<<6,2,251>>,<<10,2,251>>,<<15,2,251>>,<<24,2,251>>,<<31,2,251>>,<<41,2,251>>,<<56,3,251>>>>,
    <<<<3,2,252>>,<<6,2,252>>,<<10,2,252>>,<<15,2,252>>,<<24,2,252>>,<<31,2,252>>,<<41,2,252>>,<<56,3,252>>,<<3,2,253>>,<<6,2,253>>,<<10,2,253>>,<<15,2,253>>,<<24,2,253>>,<<31,2,253>>,<<41,2,253>>,<<56,3,253>>>>,
    <<<<0,3,254>>,<<227,0,0>>,<<229,0,0>>,<<230,0,0>>,<<233,0,0>>,<<234,0,0>>,<<236,0,0>>,<<237,0,0>>,<<241,0,0>>,<<242,0,0>>,<<244,0,0>>,<<245,0,0>>,<<248,0,0>>,<<249,0,0>>,<<251,0,0>>,<<252,0,0>>>>,
    <<<<1,2,254>>,<<22,3,254>>,<<0,3,2>>,<<0,3,3>>,<<0,3,4>>,<<0,3,5>>,<<0,3,6>>,<<0,3,7>>,<<0,3,8>>,<<0,3,11>>,<<0,3,12>>,<<0,3,14>>,<<0,3,15>>,<<0,3,16>>,<<0,3,17>>,<<0,3,18>>>>,
    <<<<2,2,254>>,<<9,2,254>>,<<23,2,254>>,<<40,3,254>>,<<1,2,2>>,<<22,3,2>>,<<1,2,3>>,<<22,3,3>>,<<1,2,4>>,<<22,3,4>>,<<1,2,5>>,<<22,3,5>>,<<1,2,6>>,<<22,3,6>>,<<1,2,7>>,<<22,3,7>>>>,
    <<<<3,2,254>>,<<6,2,254>>,<<10,2,254>>,<<15,2,254>>,<<24,2,254>>,<<31,2,254>>,<<41,2,254>>,<<56,3,254>>,<<2,2,2>>,<<9,2,2>>,<<23,2,2>>,<<40,3,2>>,<<2,2,3>>,<<9,2,3>>,<<23,2,3>>,<<40,3,3>>>>,
    <<<<3,2,2>>,<<6,2,2>>,<<10,2,2>>,<<15,2,2>>,<<24,2,2>>,<<31,2,2>>,<<41,2,2>>,<<56,3,2>>,<<3,2,3>>,<<6,2,3>>,<<10,2,3>>,<<15,2,3>>,<<24,2,3>>,<<31,2,3>>,<<41,2,3>>,<<56,3,3>>>>,
    <<<<2,2,4>>,<<9,2,4>>,<<23,2,4>>,<<40,3,4>>,<<2,2,5>>,<<9,2,5>>,<<23,2,5>>,<<40,3,5>>,<<2,2,6>>,<<9,2,6>>,<<23,2,6>>,<<40,3,6>>,<<2,2,7>>,<<9,2,7>>,<<23,2,7>>,<<40,3,7>>>>,
    <<<<3,2,4>>,<<6,2,4>>,<<10,2,4>>,<<15,2,4>>,<<24,2,4>>,<<31,2,4>>,<<41,2,4>>,<<56,3,4>>,<<3,2,5>>,<<6,2,5>>,<<10,2,5>>,<<15,2,5>>,<<24,2,5>>,<<31,2,5>>,<<41,2,5>>,<<56,3,5>>>>,
    <<<<3,2,6>>,<<6,2,6>>,<<10,2,6>>,<<15,2,6>>,<<24,2,6>>,<<31,2,6>>,<<41,2,6>>,<<56,3,6>>,<<3,2,7>>,<<6,2,7>>,<<10,2,7>>,<<15,2,7>>,<<24,2,7>>,<<31,2,7>>,<<41,2,7>>,<<56,3,7>>>>,
    <<<<1,2,8>>,<<22,3,8>>,<<1,2,11>>,<<22,3,11>>,<<1,2,12>>,<<22,3,12>>,<<1,2,14>>,<<22,3,14>>,<<1,2,15>>,<<22,3,15>>,<<1,2,16>>,<<22,3,16>>,<<1,2,17>>,<<22,3,17>>,<<1,2,18>>,<<22,3,18>>>>,
    <<<<2,2,8>>,<<9,2,8>>,<<23,2,8>>,<<40,3,8>>,<<2,2,11>>,<<9,2,11>>,<<23,2,11>>,<<40,3,11>>,<<2,2,12>>,<<9,2,12>>,<<23,2,12>>,<<40,3,12>>,<<2,2,14>>,<<9,2,14>>,<<23,2,14>>,<<40,3,14>>>>,
    <<<<3,2,8>>,<<6,2,8>>,<<10,2,8>>,<<15,2,8>>,<<24,2,8>>,<<31,2,8>>,<<41,2,8>>,<<56,3,8>>,<<3,2,11>>,<<6,2,11>>,<<10,2,11>>,<<15,2,11>>,<<24,2,11>>,<<31,2,11>>,<<41,2,11>>,<<56,3,11>>>>,
    <<<<3,2,12>>,<<6,2,12>>,<<10,2,12>>,<<15,2,12>>,<<24,2,12>>,<<31,2,12>>,<<41,2,12>>,<<56,3,12>>,<<3,2,14>>,<<6,2,14>>,<<10,2,14>>,<<15,2,14>>,<<24,2,14>>,<<31,2,14>>,<<41,2,14>>,<<56,3,14>>>>,
    <<<<2,2,15>>,<<9,2,15>>,<<23,2,15>>,<<40,3,15>>,<<2,2,16>>,<<9,2,16>>,<<23,2,16>>,<<40,3,16>>,<<2,2,17>>,<<9,2,17>>,<<23,2,17>>,<<40,3,17>>,<<2,2,18>>,<<9,2,18>>,<<23,2,18>>,<<40,3,18>>>>,
    <<<<3,2,15>>,<<6,2,15>>,<<10,2,15>>,<<15,2,15>>,<<24,2,15>>,<<31,2,15>>,<<41,2,15>>,<<56,3,15>>,<<3,2,16>>,<<6,2,16>>,<<10,2,16>>,<<15,2,16>>,<<24,2,16>>,<<31,2,16>>,<<41,2,16>>,<<56,3,16>>>>,
    <<<<3,2,17>>,<<6,2,17>>,<<10,2,17>>,<<15,2,17>>,<<24,2,17>>,<<31,2,17>>,<<41,2,17>>,<<56,3,17>>,<<3,2,18>>,<<6,2,18>>,<<10,2,18>>,<<15,2,18>>,<<24,2,18>>,<<31,2,18>>,<<41,2,18>>,<<56,3,18>>>>,
    <<<<0,3,19>>,<<0,3,20>>,<<0,3,21>>,<<0,3,23>>,<<0,3,24>>,<<0,3,25>>,<<0,3,26>>,<<0,3,27>>,<<0,3,28>>,<<0,3,29>>,<<0,3,30>>,<<0,3,31>>,<<0,3,127>>,<<0,3,220>>,<<0,3,249>>,<<253,0,0>>>>,
    <<<<1,2,19>>,<<22,3,19>>,<<1,2,20>>,<<22,3,20>>,<<1,2,21>>,<<22,3,21>>,<<1,2,23>>,<<22,3,23>>,<<1,2,24>>,<<22,3,24>>,<<1,2,25>>,<<22,3,25>>,<<1,2,26>>,<<22,3,26>>,<<1,2,27>>,<<22,3,27>>>>,
    <<<<2,2,19>>,<<9,2,19>>,<<23,2,19>>,<<40,3,19>>,<<2,2,20>>,<<9,2,20>>,<<23,2,20>>,<<40,3,20>>,<<2,2,21>>,<<9,2,21>>,<<23,2,21>>,<<40,3,21>>,<<2,2,23>>,<<9,2,23>>,<<23,2,23>>,<<40,3,23>>>>,
    <<<<3,2,19>>,<<6,2,19>>,<<10,2,19>>,<<15,2,19>>,<<24,2,19>>,<<31,2,19>>,<<41,2,19>>,<<56,3,19>>,<<3,2,20>>,<<6,2,20>>,<<10,2,20>>,<<15,2,20>>,<<24,2,20>>,<<31,2,20>>,<<41,2,20>>,<<56,3,20>>>>,
    <<<<3,2,21>>,<<6,2,21>>,<<10,2,21>>,<<15,2,21>>,<<24,2,21>>,<<31,2,21>>,<<41,2,21>>,<<56,3,21>>,<<3,2,23>>,<<6,2,23>>,<<10,2,23>>,<<15,2,23>>,<<24,2,23>>,<<31,2,23>>,<<41,2,23>>,<<56,3,23>>>>,
    <<<<2,2,24>>,<<9,2,24>>,<<23,2,24>>,<<40,3,24>>,<<2,2,25>>,<<9,2,25>>,<<23,2,25>>,<<40,3,25>>,<<2,2,26>>,<<9,2,26>>,<<23,2,26>>,<<40,3,26>>,<<2,2,27>>,<<9,2,27>>,<<23,2,27>>,<<40,3,27>>>>,
    <<<<3,2,24>>,<<6,2,24>>,<<10,2,24>>,<<15,2,24>>,<<24,2,24>>,<<31,2,24>>,<<41,2,24>>,<<56,3,24>>,<<3,2,25>>,<<6,2,25>>,<<10,2,25>>,<<15,2,25>>,<<24,2,25>>,<<31,2,25>>,<<41,2,25>>,<<56,3,25>>>>,
    <<<<3,2,26>>,<<6,2,26>>,<<10,2,26>>,<<15,2,26>>,<<24,2,26>>,<<31,2,26>>,<<41,2,26>>,<<56,3,26>>,<<3,2,27>>,<<6,2,27>>,<<10,2,27>>,<<15,2,27>>,<<24,2,27>>,<<31,2,27>>,<<41,2,27>>,<<56,3,27>>>>,
    <<<<1,2,28>>,<<22,3,28>>,<<1,2,29>>,<<22,3,29>>,<<1,2,30>>,<<22,3,30>>,<<1,2,31>>,<<22,3,31>>,<<1,2,127>>,<<22,3,127>>,<<1,2,220>>,<<22,3,220>>,<<1,2,249>>,<<22,3,249>>,<<254,0,0>>,<<255,0,0>>>>,
    <<<<2,2,28>>,<<9,2,28>>,<<23,2,28>>,<<40,3,28>>,<<2,2,29>>,<<9,2,29>>,<<23,2,29>>,<<40,3,29>>,<<2,2,30>>,<<9,2,30>>,<<23,2,30>>,<<40,3,30>>,<<2,2,31>>,<<9,2,31>>,<<23,2,31>>,<<40,3,31>>>>,
    <<<<3,2,28>>,<<6,2,28>>,<<10,2,28>>,<<15,2,28>>,<<24,2,28>>,<<31,2,28>>,<<41,2,28>>,<<56,3,28>>,<<3,2,29>>,<<6,2,29>>,<<10,2,29>>,<<15,2,29>>,<<24,2,29>>,<<31,2,29>>,<<41,2,29>>,<<56,3,29>>>>,
    <<<<3,2,30>>,<<6,2,30>>,<<10,2,30>>,<<15,2,30>>,<<24,2,30>>,<<31,2,30>>,<<41,2,30>>,<<56,3,30>>,<<3,2,31>>,<<6,2,31>>,<<10,2,31>>,<<15,2,31>>,<<24,2,31>>,<<31,2,31>>,<<41,2,31>>,<<56,3,31>>>>,
    <<<<2,2,127>>,<<9,2,127>>,<<23,2,127>>,<<40,3,127>>,<<2,2,220>>,<<9,2,220>>,<<23,2,220>>,<<40,3,220>>,<<2,2,249>>,<<9,2,249>>,<<23,2,249>>,<<40,3,249>>,<<0,3,10>>,<<0,3,13>>,<<0,3,22>>,<<0,4,0>>>>,
    <<<<3,2,127>>,<<6,2,127>>,<<10,2,127>>,<<15,2,127>>,<<24,2,127>>,<<31,2,127>>,<<41,2,127>>,<<56,3,127>>,<<3,2,220>>,<<6,2,220>>,<<10,2,220>>,<<15,2,220>>,<<24,2,220>>,<<31,2,220>>,<<41,2,220>>,<<56,3,220>>>>,
    <<<<3,2,249>>,<<6,2,249>>,<<10,2,249>>,<<15,2,249>>,<<24,2,249>>,<<31,2,249>>,<<41,2,249>>,<<56,3,249>>,<<1,2,10>>,<<22,3,10>>,<<1,2,13>>,<<22,3,13>>,<<1,2,22>>,<<22,3,22>>,<<0,4,0>>,<<0,4,0>>>>,
    <<<<2,2,10>>,<<9,2,10>>,<<23,2,10>>,<<40,3,10>>,<<2,2,13>>,<<9,2,13>>,<<23,2,13>>,<<40,3,13>>,<<2,2,22>>,<<9,2,22>>,<<23,2,22>>,<<40,3,22>>,<<0,4,0>>,<<0,4,0>>,<<0,4,0>>,<<0,4,0>>>>,
    <<<<3,2,10>>,<<6,2,10>>,<<10,2,10>>,<<15,2,10>>,<<24,2,10>>,<<31,2,10>>,<<41,2,10>>,<<56,3,10>>,<<3,2,13>>,<<6,2,13>>,<<10,2,13>>,<<15,2,13>>,<<24,2,13>>,<<31,2,13>>,<<41,2,13>>,<<56,3,13>>>>,
    <<<<3,2,22>>,<<6,2,22>>,<<10,2,22>>,<<15,2,22>>,<<24,2,22>>,<<31,2,22>>,<<41,2,22>>,<<56,3,22>>,<<0,4,0>>,<<0,4,0>>,<<0,4,0>>,<<0,4,0>>,<<0,4,0>>,<<0,4,0>>,<<0,4,0>>,<<0,4,0>>>>
  >>
----------------------------------------------------------------------------
(* Call(f, a) is the function named f applied to the arguments a.  The     *)
(* functions of lsqpack.c call one another through it, so that the body of *)
(* a function occurs once in the definition of an action, however many     *)
(* calls of it the action makes.                                           *)

RECURSIVE Call(_, _)

----------------------------------------------------------------------------
(* Integer codec *)

RECURSIVE NCont(_)
NCont(v) == IF v >= 128 THEN 1 + NCont(v \div 128) ELSE 1

\* 1 + the number of thresholds (mask, 2^7 + mask, 2^14 + mask, ...) that
\* value reaches: the length of the encoding of value with this prefix.
lsqpack_val2len(value, prefix_bits) ==
    LET mask == 2 ^ prefix_bits - 1
    IN  IF value >= mask THEN 1 + NCont(value - mask) ELSE 1

\* uint64_t: a value below 2^64 is kept as <<l0, l1, l2>>, standing for
\* l0 + l1 * 2^28 + l2 * 2^56 with l0, l1 < 2^28 and l2 < 2^8, so that the
\* arithmetic of the integer codec keeps the width the C code has.
Limb == 2 ^ 28

\* (uint64_t) n for a number n the model can hold
U64(n) == <<n % Limb, n \div Limb, 0>>

\* the number held in a uint64_t when it is below 2^31, else -1
U64Int(v) == IF v[3] = 0 /\ v[2] < 8 THEN v[1] + v[2] * Limb ELSE -1

\* carries propagated, bits 64 and up dropped (unsigned wrap-around)
U64Carry(a, b, c) ==
    LET b1 == b + a \div Limb
    IN  <<a % Limb, b1 % Limb, (c + b1 \div Limb) % 256>>

\* val + (d << M) for d < 128 and M a multiple of 7.  A shift by 64 or more
\* is undefined in C; its result is left as val here, and no path of
\* lsqpack_dec_int lets it out (M is then above 70 at the end of the loop).
U64AddShl(val, d, M) ==
    LET k == M \div 28
        t == d * (2 ^ (M % 28))
    IN  IF M >= 64 THEN val
        ELSE U64Carry(val[1] + (IF k = 0 THEN t ELSE 0),
                      val[2] + (IF k = 1 THEN t ELSE 0),
                      val[3] + (IF k = 2 THEN t ELSE 0))

\* a < b
U64Less(a, b) ==
    \/ a[3] < b[3]
    \/ a[3] = b[3] /\ a[2] < b[2]
    \/ a[3] = b[3] /\ a[2] = b[2] /\ a[1] < b[1]

\* val - n for n < 2^28 and val >= n
U64Sub(val, n) ==
    IF val[1] >= n THEN <<val[1] - n, val[2], val[3]>>
    ELSE IF val[2] >= 1 THEN <<val[1] + Limb - n, val[2] - 1, val[3]>>
    ELSE <<val[1] + Limb - n, Limb - 1, val[3] - 1>>

\* val >> 7
U64Shr7(val) ==
    <<val[1] \div 128 + (val[2] % 128) * (2 ^ 21),
      val[2] \div 128 + (val[3] % 128) * (2 ^ 21),
      val[3] \div 128>>

RECURSIVE EncIntTail(_)
\* the continuation bytes of lsqpack_enc_int: while (value >= 128) ...
EncIntTail(value) ==
    IF ~U64Less(value, U64(128))
    THEN <<128 + (value[1] % 128)>> \o EncIntTail(U64Shr7(value))
    ELSE <<value[1]>>

\* lsqpack_enc_int_nocheck putting the largest prefix value into the prefix
enc_int_prefix_holds_max(first, value, prefix_bits) ==
    IF U64Less(value, U64(2 ^ prefix_bits))
    THEN <<BitOr(first, value[1])>>
    ELSE <<BitOr(first, 2 ^ prefix_bits - 1)>>
         \o EncIntTail(U64Sub(value, 2 ^ prefix_bits - 1))

\* lsqpack_enc_int_nocheck: first is the byte already at *dst, value a
\* uint64_t.
lsqpack_enc_int_nocheck(first, value, prefix_bits) ==
    IF U64Less(value, U64(2 ^ prefix_bits - 1))
    THEN <<BitOr(first, value[1])>>
    ELSE <<BitOr(first, 2 ^ prefix_bits - 1)>>
         \o EncIntTail(U64Sub(value, 2 ^ prefix_bits - 1))

\* lsqpack_enc_int: room = end - dst, first is the byte already at *dst,
\* value a uint64_t.
\* Result: ok is FALSE when assert(dst < end) fails; bytes are the bytes
\* written, <<>> when the function returns dst_orig (no room).
lsqpack_enc_int(first, room, value, prefix_bits) ==
    IF room < 1 THEN [ok |-> FALSE, bytes |-> <<>>]
    ELSE LET all == Call("lsqpack_enc_int_nocheck", <<first, value, prefix_bits>>)
         IN  [ok |-> TRUE,
              bytes |-> IF Len(all) <= room THEN all ELSE <<>>]

\* struct lsqpack_dec_int_state; val is a uint64_t
DecIntState0 == [resume |-> 0, val |-> U64(0), M |-> 0, nread |-> 0]

RECURSIVE dec_int_loop_no_overflow_test(_, _, _, _, _, _)
\* DecIntLoop without the test of the eleventh byte and of bit 63
dec_int_loop_no_overflow_test(buf, i, i0, val, M, st) ==
    IF i <= Len(buf)
    THEN LET B  == buf[i]
             v2 == U64AddShl(val, B % 128, M)
             M2 == M + 7
         IN  IF B >= 128
             THEN dec_int_loop_no_overflow_test(buf, i + 1, i0, v2, M2, st)
             ELSE IF M2 <= 70
                  THEN [r |-> 0, val |-> U64Int(v2), val64 |-> v2,
                        pos |-> i + 1, st |-> st]
                  ELSE [r |-> -2, val |-> 0, val64 |-> U64(0),
                        pos |-> i0, st |-> st]
    ELSE LET nread == (IF st.resume = 1 THEN st.nread ELSE 0) + (i - i0)
         IN  IF nread < LSQPACK_UINT64_ENC_SZ
             THEN [r |-> -1, val |-> 0, val64 |-> U64(0), pos |-> i0,
                   st |-> [resume |-> 1, val |-> val, M |-> M, nread |-> nread]]
             ELSE [r |-> -2, val |-> 0, val64 |-> U64(0), pos |-> i0, st |-> st]

RECURSIVE DecIntLoop(_, _, _, _, _, _)
\* The do-while loop of lsqpack_dec_int, entered with src = i and val a
\* uint64_t.  In the result val64 is *value_p and val the same number as
\* an integer of the model (-1 when it is 2^31 or more).
DecIntLoop(buf, i, i0, val, M, st) ==
    IF i <= Len(buf)
    THEN LET B  == buf[i]
             v2 == U64AddShl(val, B % 128, M)
             M2 == M + 7
         IN  IF B >= 128
             THEN DecIntLoop(buf, i + 1, i0, v2, M2, st)
             ELSE IF M2 <= 63
                     \/ (M2 = 70 /\ B <= 1 /\ v2[3] >= 128)
                  THEN [r |-> 0, val |-> U64Int(v2), val64 |-> v2,
                        pos |-> i + 1, st |-> st]
                  ELSE [r |-> -2, val |-> 0, val64 |-> U64(0),
                        pos |-> i0, st |-> st]
    ELSE LET nread == (IF st.resume = 1 THEN st.nread ELSE 0) + (i - i0)
         IN  IF nread < LSQPACK_UINT64_ENC_SZ
             THEN [r |-> -1, val |-> 0, val64 |-> U64(0), pos |-> i0,
                   st |-> [resume |-> 1, val |-> val, M |-> M, nread |-> nread]]
             ELSE [r |-> -2, val |-> 0, val64 |-> U64(0), pos |-> i0, st |-> st]

\* lsqpack_dec_int that takes every call for the first of an integer
dec_int_without_resume(buf, i, prefix_bits, st) ==
    LET prefix_max == 2 ^ prefix_bits - 1
        val == buf[i] % (2 ^ prefix_bits)
    IN  IF val < prefix_max
        THEN [r |-> 0, val |-> val, val64 |-> U64(val),
              pos |-> i + 1, st |-> st]
        ELSE DecIntLoop(buf, i + 1, i, U64(val), 0, st)

\* lsqpack_dec_int(&src, src_end, prefix_bits, &value, state), src = buf + i.
\* r: 0 OK (val, pos = the new src), -1 out of input (st saved; *src_p is
\* left alone), -2 overflow.  The caller guarantees one readable byte.
lsqpack_dec_int(buf, i, prefix_bits, st) ==
    IF st.resume = 1
    THEN DecIntLoop(buf, i, i, st.val, st.M, st)
    ELSE LET prefix_max == 2 ^ prefix_bits - 1
             val == buf[i] % (2 ^ prefix_bits)
         IN  IF val < prefix_max
             THEN [r |-> 0, val |-> val, val64 |-> U64(val),
                   pos |-> i + 1, st |-> st]
             ELSE DecIntLoop(buf, i + 1, i, U64(val), 0, st)

----------------------------------------------------------------------------
(* Huffman codec *)

RECURSIVE CodeBits(_, _)
\* the low n bits of code, most significant first
CodeBits(code, n) ==
    IF n = 0 THEN <<>>
    ELSE Append(CodeBits(code \div 2, n - 1), code % 2)

RECURSIVE HuffBits(_)
\* the codes of the bytes of str, concatenated: what the loop of
\* qenc_huffman_enc shifts through its accumulator
HuffBits(str) ==
    IF str = <<>> THEN <<>>
    ELSE LET el == encode_table[Head(str) + 1]
         IN  CodeBits(el[1], el[2]) \o HuffBits(Tail(str))

RECURSIVE PackBits(_)
\* bytes of a bit sequence, the last byte padded with ones
PackBits(bits) ==
    IF bits = <<>> THEN <<>>
    ELSE LET b(k) == IF k <= Len(bits) THEN bits[k] ELSE 1
             byte == 128 * b(1) + 64 * b(2) + 32 * b(3) + 16 * b(4)
                     + 8 * b(5) + 4 * b(6) + 2 * b(7) + b(8)
         IN  <<byte>> \o (IF Len(bits) <= 8 THEN <<>>
                          ELSE PackBits(SubSeq(bits, 9, Len(bits))))

RECURSIVE PackBitsZero(_)
\* bytes of a bit sequence, the last byte padded with zeros
PackBitsZero(bits) ==
    IF bits = <<>> THEN <<>>
    ELSE LET b(k) == IF k <= Len(bits) THEN bits[k] ELSE 0
             byte == 128 * b(1) + 64 * b(2) + 32 * b(3) + 16 * b(4)
                     + 8 * b(5) + 4 * b(6) + 2 * b(7) + b(8)
         IN  <<byte>> \o (IF Len(bits) <= 8 THEN <<>>
                          ELSE PackBitsZero(SubSeq(bits, 9, Len(bits))))

\* qenc_huffman_enc padding the last byte with zeros
huffman_enc_zero_padding(str) == PackBitsZero(HuffBits(str))

\* qenc_huffman_enc(src, src_end, dst): the bytes written at dst
qenc_huffman_enc(str) == PackBits(HuffBits(str))

RECURSIVE HuffEncSizeBits(_)
HuffEncSizeBits(str) ==
    IF str = <<>> THEN 0
    ELSE encode_table[Head(str) + 1][2] + HuffEncSizeBits(Tail(str))

\* lsqpack_enc_enc_str(prefix_bits, dst, dst_len, str, str_len); first is
\* the byte at *dst on entry.  r = -1: no room, nothing written.
lsqpack_enc_enc_str(prefix_bits, first, dst_len, str) ==
    LET str_len == Len(str)
        enc_size_bits == HuffEncSizeBits(str)
        enc_size_bytes == enc_size_bits \div 8
                          + (IF (enc_size_bits % 8) # 0 THEN 1 ELSE 0)
    IN  IF enc_size_bytes < str_len
        THEN LET len_size == Call("lsqpack_val2len", <<enc_size_bytes, prefix_bits>>)
             IN  IF len_size + enc_size_bytes <= dst_len
                 THEN LET b0 == BitOr(ClearLow(first, prefix_bits + 1),
                                      2 ^ prefix_bits)
                          bytes == Call("lsqpack_enc_int_nocheck", <<
                                       b0, U64(enc_size_bytes), prefix_bits>>)
                                   \o Call("qenc_huffman_enc", <<str>>)
                      IN  [r |-> Len(bytes), bytes |-> bytes]
                 ELSE [r |-> -1, bytes |-> <<>>]
        ELSE LET len_size == Call("lsqpack_val2len", <<str_len, prefix_bits>>)
             IN  IF len_size + str_len <= dst_len
                 THEN LET b0 == ClearLow(first, prefix_bits + 1)
                          bytes == Call("lsqpack_enc_int_nocheck", <<
                                       b0, U64(str_len), prefix_bits>>) \o str
                      IN  [r |-> Len(bytes), bytes |-> bytes]
                 ELSE [r |-> -1, bytes |-> <<>>]

\* struct lsqpack_huff_decode_state
HuffState0 == [resume |-> 0, state |-> 0, eos |-> 1]

\* qdec_huff_dec4bits following the transitions flagged FAIL
dec4bits_follows_fail(src_4bits, hs) ==
    LET cur == decode_tables[hs.state + 1][src_4bits + 1]
    IN  [ok |-> TRUE,
         out |-> IF HasBit(cur[2], HPACK_HUFFMAN_FLAG_SYM)
                 THEN <<cur[3]>> ELSE <<>>,
         hs |-> [hs EXCEPT !.state = cur[1],
                           !.eos = IF HasBit(cur[2],
                                             HPACK_HUFFMAN_FLAG_ACCEPTED)
                                   THEN 1 ELSE 0]]

\* qdec_huff_dec4bits(src_4bits, dst, status): NULL (ok = FALSE) on a
\* transition flagged FAIL, else the bytes written and the new status
qdec_huff_dec4bits(src_4bits, hs) ==
    LET Dec(cur) ==
            IF HasBit(cur[2], HPACK_HUFFMAN_FLAG_FAIL)
            THEN [ok |-> FALSE, out |-> <<>>, hs |-> hs]
            ELSE [ok |-> TRUE,
                  out |-> IF HasBit(cur[2], HPACK_HUFFMAN_FLAG_SYM)
                          THEN <<cur[3]>> ELSE <<>>,
                  hs |-> [hs EXCEPT !.state = cur[1],
                                    !.eos = IF HasBit(cur[2],
                                                HPACK_HUFFMAN_FLAG_ACCEPTED)
                                            THEN 1 ELSE 0]]
    IN  Dec(decode_tables[hs.state + 1][src_4bits + 1])

HuffRet(status, n_dst, n_src, out, hs) ==
    [status |-> status, n_dst |-> n_dst, n_src |-> n_src, out |-> out,
     hs |-> hs]

RECURSIVE HuffCk(_, _, _, _, _, _, _)
\* The body of lsqpack_huff_decode from one of its three labels:
\* at = 1: the loop test (ck1), 2: the high nibble (ck2), 3: the low
\* nibble (ck3).  p indexes the next source byte, out holds the bytes
\* written at dst so far.
HuffCk(at, src, p, dst_len, out, hs, final) ==
    IF at = 1
    THEN IF p <= Len(src)
         THEN IF Len(out) = dst_len
              THEN HuffRet("END_DST", dst_len, p - 1, out,
                           [hs EXCEPT !.resume = 2])
              ELSE HuffCk(2, src, p, dst_len, out, hs, final)
         ELSE IF final
              THEN HuffRet(IF hs.eos = 1 THEN "OK" ELSE "ERROR",
                           Len(out), p - 1, out, hs)
              ELSE HuffRet("END_SRC", Len(out), p - 1, out,
                           [hs EXCEPT !.resume = 1])
    ELSE IF at = 2
    THEN LET d == Call("qdec_huff_dec4bits", <<src[p] \div 16, hs>>)
         IN  IF ~d.ok THEN HuffRet("ERROR", 0, 0, out, hs)
             ELSE IF Len(out \o d.out) = dst_len
             THEN HuffRet("END_DST", dst_len, p - 1, out \o d.out,
                          [d.hs EXCEPT !.resume = 3])
             ELSE HuffCk(3, src, p, dst_len, out \o d.out, d.hs, final)
    ELSE LET d == Call("qdec_huff_dec4bits", <<src[p] % 16, hs>>)
         IN  IF ~d.ok THEN HuffRet("ERROR", 0, 0, out, hs)
             ELSE HuffCk(1, src, p + 1, dst_len, out \o d.out, d.hs, final)

\* lsqpack_huff_decode resuming at the high nibble after the destination
\* was filled by it
huff_decode_repeats_nibble(src, dst_len, hs, final) ==
    IF hs.resume = 1 THEN Call("HuffCk", <<1, src, 1, dst_len, <<>>, hs, final>>)
    ELSE IF hs.resume \in {2, 3}
    THEN Call("HuffCk", <<2, src, 1, dst_len, <<>>, hs, final>>)
    ELSE Call("HuffCk", <<1, src, 1, dst_len, <<>>,
                [hs EXCEPT !.state = 0, !.eos = 1], final>>)

\* lsqpack_huff_decode(src, src_len, dst, dst_len, state, final): out is
\* what the call wrote at dst, hs the state it leaves.
lsqpack_huff_decode(src, dst_len, hs, final) ==
    IF hs.resume = 1 THEN Call("HuffCk", <<1, src, 1, dst_len, <<>>, hs, final>>)
    ELSE IF hs.resume = 2 THEN Call("HuffCk", <<2, src, 1, dst_len, <<>>, hs, final>>)
    ELSE IF hs.resume = 3 THEN Call("HuffCk", <<3, src, 1, dst_len, <<>>, hs, final>>)
    ELSE Call("HuffCk", <<1, src, 1, dst_len, <<>>,
                [hs EXCEPT !.state = 0, !.eos = 1], final>>)

----------------------------------------------------------------------------
(* Static table lookup *)

\* name[k] of the C code is At(name, k); the code reads name + 1 and
\* name + 2 only after name_len >= 3 and the deeper offsets only after a
\* test of name_len.  *val is read even when val_len is 0, but every entry
\* the first switch can select has a non-empty value, so the byte read
\* there never changes the result: it is taken as -1 (no case).
At(s, k) == IF k + 1 <= Len(s) THEN s[k + 1] ELSE -1

\* the first switch of lsqpack_enc_get_stx_tab_id: switch (*val)
StxValCase(val) ==
    LET c == At(val, 0)
        n == Len(val)
    IN  CASE c = 71 -> 1
          [] c = 80 -> 2
          [] c = 47 -> (IF n = 1 THEN 3 ELSE IF n = 11 THEN 4 ELSE -1)
          [] c = 104 -> (IF n = 4 THEN 5 ELSE IF n = 5 THEN 6 ELSE -1)
          [] c = 50 -> (IF n # 3 THEN -1
                        ELSE CASE At(val, 2) = 48 -> 7
                               [] At(val, 2) = 52 -> 8
                               [] At(val, 2) = 54 -> 9
                               [] OTHER -> -1)
          [] c = 51 -> 10
          [] c = 52 -> (IF n # 3 THEN -1
                        ELSE CASE At(val, 2) = 48 -> 11
                               [] At(val, 2) = 52 -> 12
                               [] OTHER -> -1)
          [] c = 53 -> 13
          [] c = 103 -> 15
          [] OTHER -> -1

\* the second switch of lsqpack_enc_get_stx_tab_id: switch (*name)
StxNameCase(name) ==
    LET c == At(name, 0)
        n == Len(name)
    IN  CASE c = 58 ->
               (CASE At(name, 1) = 97 -> 0
                  [] At(name, 1) = 109 -> 1
                  [] At(name, 1) = 112 -> 3
                  [] At(name, 1) = 115 -> (IF At(name, 2) = 99 THEN 5 ELSE 7)
                  [] OTHER -> -1)
          [] c = 97 ->
               (CASE n = 3 -> 20
                  [] n = 5 -> 21
                  [] n = 6 -> 18
                  [] n = 13 -> (IF At(name, 1) = 117 THEN 22 ELSE 17)
                  [] n = 14 -> 14
                  [] n = 15 -> (IF At(name, 7) = 108 THEN 16 ELSE 15)
                  [] n = 27 -> 19
                  [] OTHER -> -1)
          [] c = 99 ->
               (CASE n = 6 -> 31
                  [] n = 12 -> 30
                  [] n = 13 -> (IF At(name, 1) = 97 THEN 23 ELSE 29)
                  [] n = 14 -> 27
                  [] n = 16 -> (CASE At(name, 9) = 110 -> 25
                                  [] At(name, 9) = 97 -> 26
                                  [] At(name, 9) = 111 -> 28
                                  [] OTHER -> -1)
                  [] n = 19 -> 24
                  [] OTHER -> -1)
          [] c = 100 -> 32
          [] c = 101 ->
               (CASE n = 4 -> 33
                  [] n = 6 -> 34
                  [] n = 7 -> 35
                  [] OTHER -> -1)
          [] c = 102 -> 36
          [] c = 104 -> 37
          [] c = 105 ->
               (CASE n = 8 -> (IF At(name, 3) = 109 THEN 38 ELSE 41)
                  [] n = 13 -> 40
                  [] n = 17 -> 39
                  [] n = 19 -> 42
                  [] OTHER -> -1)
          [] c = 108 ->
               (CASE n = 4 -> 44
                  [] n = 8 -> 45
                  [] n = 13 -> 43
                  [] OTHER -> -1)
          [] c = 109 -> 46
          [] c = 112 -> (IF n = 18 THEN 47 ELSE 48)
          [] c = 114 ->
               (IF n < 5 THEN -1
                ELSE CASE At(name, 4) = 101 -> (IF n = 5 THEN 49 ELSE 51)
                       [] At(name, 4) = 114 -> 50
                       [] At(name, 4) = 121 -> 52
                       [] OTHER -> -1)
          [] c = 115 ->
               (CASE n = 6 -> 53
                  [] n = 10 -> 54
                  [] n = 25 -> 55
                  [] OTHER -> -1)
          [] c = 116 -> 56
          [] c = 117 -> 57
          [] c = 118 -> (IF n = 4 THEN 58 ELSE 59)
          [] c = 119 -> 60
          [] OTHER -> -1

\* lsqpack_enc_get_stx_tab_id: id is 0 when nothing is found, else the
\* 1-based static index; static_table[i] of the code is static_table[i + 1]
lsqpack_enc_get_stx_tab_id(name, val) ==
    IF Len(name) < 3 THEN [id |-> 0, val_matched |-> 0]
    ELSE LET i == StxValCase(val)
             j == StxNameCase(name)
         IN  IF i > 0 /\ static_table[i + 1].val = val
                      /\ static_table[i + 1].name = name
             THEN [id |-> i + 1, val_matched |-> 1]
             ELSE IF j >= 0 /\ static_table[j + 1].name = name
             THEN [id |-> j + 1, val_matched |-> 0]
             ELSE [id |-> 0, val_matched |-> 0]

----------------------------------------------------------------------------
(* Encoder *)

TT_STATIC == 0
TT_DYNAMIC == 1

\* struct lsqpack_header_info, zeroed
HeaderInfo0 ==
    [qhi_stream_id |-> 0, qhi_seqno |-> 0, qhi_min_id |-> 0, qhi_max_id |-> 0]

\* enc->qpe_dec_stream_state: the state of the integer being read and the
\* handler chosen from the first byte of the instruction
DecStreamState0 == [dec_int_state |-> DecIntState0, handler |-> "none"]

\* lsqpack_enc_init: memset(enc, 0), then the two limits.  qpe_all_entries
\* is the list of entries, oldest first; an entry is a record
\* [ete_id, ete_n_reffd, name, val].  in_header is the LSQPACK_ENC_HEADER
\* bit of qpe_flags.
lsqpack_enc_init(dyn_table_size, max_risked_streams) ==
    [qpe_ins_count |-> 0,
     qpe_max_acked_id |-> 0,
     qpe_cur_capacity |-> 0,
     qpe_max_capacity |-> dyn_table_size,
     qpe_max_risked_streams |-> max_risked_streams,
     qpe_cur_streams_at_risk |-> 0,
     qpe_hinfos_count |-> 0,
     qpe_hinfos_nalloc |-> 0,
     qpe_nelem |-> 0,
     qpe_nbits |-> 2,
     in_header |-> FALSE,
     qpe_all_entries |-> <<>>,
     qpe_cur_header |-> [hinfo |-> HeaderInfo0, n_risked |-> 0,
                         others_at_risk |-> 0, base_idx |-> 0,
                         search_cutoff |-> 0, use_dynamic_table |-> 0],
     qpe_dec_stream_state |-> DecStreamState0]

ETE_SIZE(entry) == ENTRY_COST(Len(entry.name), Len(entry.val))

\* struct enc_search_result; esr_entry is named by its id
Esr(found, table_type, entry_id, value_match) ==
    [esr_found |-> found, esr_table_type |-> table_type,
     esr_entry_id |-> entry_id, esr_value_match |-> value_match]

qenc_find_entry_in_static_table(name, value) ==
    LET s == Call("lsqpack_enc_get_stx_tab_id", <<name, value>>)
    IN  IF s.id > 0 THEN Esr(1, TT_STATIC, s.id, s.val_matched)
        ELSE Esr(0, 0, 0, 0)

\* the conditions of the two bucket scans without the test of risk and
\* of qpe_max_acked_id
searchable_at_any_risk(enc, risk, entry) ==
    \/ enc.qpe_cur_header.search_cutoff = 0
    \/ entry.ete_id > enc.qpe_cur_header.search_cutoff

\* the conditions on an entry shared by the two bucket scans
EncSearchable(enc, risk, entry) ==
    /\ (risk = 1 \/ entry.ete_id <= enc.qpe_max_acked_id)
    /\ (enc.qpe_cur_header.search_cutoff = 0
           \/ entry.ete_id > enc.qpe_cur_header.search_cutoff)

\* qenc_find_entry_in_either_table without the scan of the dynamic table
\* for the name and the value
find_entry_without_value_scan(enc, risk, name, value) ==
    LET s == Call("lsqpack_enc_get_stx_tab_id", <<name, value>>)
        all == enc.qpe_all_entries
        nm == {k \in 1..Len(all) :
                  /\ all[k].name = name
                  /\ EncSearchable(enc, risk, all[k])}
        first(S) == CHOOSE k \in S : \A j \in S : k <= j
    IN  IF s.id > 0 /\ s.val_matched = 1 THEN Esr(1, TT_STATIC, s.id, 1)
        ELSE IF s.id > 0 THEN Esr(1, TT_STATIC, s.id, 0)
        ELSE IF nm # {} THEN Esr(1, TT_DYNAMIC, all[first(nm)].ete_id, 0)
        ELSE Esr(0, 0, 0, 0)

\* A bucket list holds its entries in insertion order, and entries with
\* equal names (and values) hash to the same bucket, so the scan of a
\* bucket finds the oldest entry of the table that matches.
qenc_find_entry_in_either_table(enc, risk, name, value) ==
    LET s == Call("lsqpack_enc_get_stx_tab_id", <<name, value>>)
        all == enc.qpe_all_entries
        nv == {k \in 1..Len(all) :
                  /\ all[k].name = name /\ all[k].val = value
                  /\ EncSearchable(enc, risk, all[k])}
        nm == {k \in 1..Len(all) :
                  /\ all[k].name = name
                  /\ EncSearchable(enc, risk, all[k])}
        first(S) == CHOOSE k \in S : \A j \in S : k <= j
    IN  IF s.id > 0 /\ s.val_matched = 1 THEN Esr(1, TT_STATIC, s.id, 1)
        ELSE IF nv # {} THEN Esr(1, TT_DYNAMIC, all[first(nv)].ete_id, 1)
        ELSE IF s.id > 0 THEN Esr(1, TT_STATIC, s.id, 0)
        ELSE IF nm # {} THEN Esr(1, TT_DYNAMIC, all[first(nm)].ete_id, 0)
        ELSE Esr(0, 0, 0, 0)

qenc_find_entry(enc, risk, name, value) ==
    IF enc.qpe_cur_header.use_dynamic_table = 1
    THEN Call("qenc_find_entry_in_either_table", <<enc, risk, name, value>>)
    ELSE Call("qenc_find_entry_in_static_table", <<name, value>>)

\* qenc_drop_oldest_entry: assert(entry) holds wherever it is called,
\* because qpe_cur_capacity > 0 only with an entry in the list
qenc_drop_oldest_entry(enc) ==
    [enc EXCEPT !.qpe_all_entries = Tail(@),
                !.qpe_cur_capacity = @ - ETE_SIZE(Head(enc.qpe_all_entries)),
                !.qpe_nelem = @ - 1]

RECURSIVE qenc_remove_overflow_entries(_)
qenc_remove_overflow_entries(enc) ==
    IF enc.qpe_cur_capacity > enc.qpe_max_capacity
    THEN qenc_remove_overflow_entries(qenc_drop_oldest_entry(enc))
    ELSE enc

\* lsqpack_enc_push_entry with the id taken from the number of live entries
push_entry_reusing_ids(enc, name, value, alloc) ==
    LET grow == enc.qpe_nelem >= (2 ^ enc.qpe_nbits) \div 2
        e1 == IF grow THEN [enc EXCEPT !.qpe_nbits = @ + 1] ELSE enc
        id == 1 + enc.qpe_nelem
        entry == [ete_id |-> id, ete_n_reffd |-> 0, name |-> name,
                  val |-> value]
        e2 == [e1 EXCEPT !.qpe_ins_count = @ + 1,
                         !.qpe_all_entries = Append(@, entry),
                         !.qpe_cur_capacity =
                             @ + ENTRY_COST(Len(name), Len(value)),
                         !.qpe_nelem = @ + 1]
    IN  IF grow /\ alloc = "grow" THEN [entry_id |-> 0, enc |-> enc]
        ELSE IF alloc = "entry" THEN [entry_id |-> 0, enc |-> e1]
        ELSE [entry_id |-> id, enc |-> qenc_remove_overflow_entries(e2)]

\* lsqpack_enc_push_entry with qpe_ins_count incremented before the entry
\* is allocated
push_entry_counting_first(enc, name, value, alloc) ==
    LET grow == enc.qpe_nelem >= (2 ^ enc.qpe_nbits) \div 2
        e1 == IF grow THEN [enc EXCEPT !.qpe_nbits = @ + 1] ELSE enc
        id == 1 + enc.qpe_ins_count
        entry == [ete_id |-> id, ete_n_reffd |-> 0, name |-> name,
                  val |-> value]
        e2 == [e1 EXCEPT !.qpe_ins_count = @ + 1,
                         !.qpe_all_entries = Append(@, entry),
                         !.qpe_cur_capacity =
                             @ + ENTRY_COST(Len(name), Len(value)),
                         !.qpe_nelem = @ + 1]
    IN  IF grow /\ alloc = "grow" THEN [entry_id |-> 0, enc |-> enc]
        ELSE IF alloc = "entry"
        THEN [entry_id |-> 0, enc |-> [e1 EXCEPT !.qpe_ins_count = @ + 1]]
        ELSE [entry_id |-> id, enc |-> qenc_remove_overflow_entries(e2)]

\* lsqpack_enc_push_entry.  alloc tells which malloc fails in this call:
\* "grow" the bucket array of qenc_grow_tables, "entry" the entry, "none"
\* neither.  entry_id is 0 for a NULL return.
lsqpack_enc_push_entry(enc, name, value, alloc) ==
    LET grow == enc.qpe_nelem >= (2 ^ enc.qpe_nbits) \div 2
        e1 == IF grow THEN [enc EXCEPT !.qpe_nbits = @ + 1] ELSE enc
        id == 1 + enc.qpe_ins_count
        entry == [ete_id |-> id, ete_n_reffd |-> 0, name |-> name,
                  val |-> value]
        e2 == [e1 EXCEPT !.qpe_ins_count = @ + 1,
                         !.qpe_all_entries = Append(@, entry),
                         !.qpe_cur_capacity =
                             @ + ENTRY_COST(Len(name), Len(value)),
                         !.qpe_nelem = @ + 1]
    IN  IF grow /\ alloc = "grow" THEN [entry_id |-> 0, enc |-> enc]
        ELSE IF alloc = "entry" THEN [entry_id |-> 0, enc |-> e1]
        ELSE [entry_id |-> id, enc |-> qenc_remove_overflow_entries(e2)]

\* lsqpack_enc_start_header; enc is NULL-free, r = -1 leaves it alone.
\* realloc_ok is the outcome of the realloc of qpe_hinfos_arr, taken when
\* qpe_hinfos_count = qpe_hinfos_nalloc.
lsqpack_enc_start_header(enc, stream_id, seqno, realloc_ok) ==
    IF enc.in_header THEN [r |-> -1, enc |-> enc]
    ELSE LET full == enc.qpe_hinfos_count = enc.qpe_hinfos_nalloc
             nalloc == IF enc.qpe_hinfos_nalloc # 0
                       THEN enc.qpe_hinfos_nalloc * 2 ELSE 4
             \* no header info is ever stored in qpe_hinfos_arr, so the
             \* scan for blocks of the same stream at risk finds nothing
             at_risk == 0
         IN  [r |-> 0,
              enc |-> [enc EXCEPT
                 !.qpe_cur_header =
                     [hinfo |-> [HeaderInfo0 EXCEPT
                                    !.qhi_stream_id = stream_id,
                                    !.qhi_seqno = seqno],
                      n_risked |-> 0,
                      others_at_risk |-> at_risk,
                      base_idx |-> enc.qpe_ins_count,
                      search_cutoff |-> 0,
                      use_dynamic_table |->
                          IF full /\ ~realloc_ok THEN 0 ELSE 1],
                 !.qpe_hinfos_nalloc =
                     IF full /\ realloc_ok THEN nalloc ELSE @,
                 !.in_header = TRUE]]

\* lsqpack_enc_end_header(enc, buf, sz): r is the return value, bytes what
\* the caller takes from buf (r bytes); abort is the failed assert of
\* lsqpack_enc_int when sz is 0.
lsqpack_enc_end_header(enc, sz) ==
    LET hdr == enc.qpe_cur_header
        max_id == hdr.hinfo.qhi_max_id
        done == [enc EXCEPT !.in_header = FALSE]
        ret(r, bytes, e, abort) ==
            [r |-> r, bytes |-> bytes, enc |-> e, abort |-> abort]
    IN  IF ~enc.in_header THEN ret(-1, <<>>, enc, FALSE)
        ELSE IF max_id # 0
        THEN LET i1 == Call("lsqpack_enc_int", <<0, sz, U64(max_id), 8>>)
             IN  IF ~i1.ok THEN ret(0, <<>>, enc, TRUE)
                 ELSE IF i1.bytes = <<>> THEN ret(0, <<>>, enc, FALSE)
                 ELSE IF Len(i1.bytes) >= sz THEN ret(0, <<>>, enc, FALSE)
                 ELSE LET sign == IF hdr.base_idx >= max_id THEN 0 ELSE 1
                          diff == IF hdr.base_idx >= max_id
                                  THEN hdr.base_idx - max_id
                                  ELSE max_id - hdr.base_idx
                          i2 == Call("lsqpack_enc_int", <<sign * 128,
                                                sz - Len(i1.bytes),
                                                U64(diff), 7>>)
                      IN  IF i2.bytes = <<>> THEN ret(0, <<>>, enc, FALSE)
                          ELSE ret(Len(i1.bytes) + Len(i2.bytes),
                                   i1.bytes \o i2.bytes, done, FALSE)
        ELSE IF sz >= 2 THEN ret(2, <<0, 0>>, done, FALSE)
        ELSE ret(0, <<>>, enc, FALSE)

\* struct encode_program and the table encode_programs
\* [found][static or dynamic][value matched][index][risk]
Prog(enc_action, hea_action, tab_action, ref_found, ref_new) ==
    [ep_enc_action |-> enc_action, ep_hea_action |-> hea_action,
     ep_tab_action |-> tab_action, EPF_REF_FOUND |-> ref_found,
     EPF_REF_NEW |-> ref_new]

encode_programs(found, table_type, value_match, index, risk) ==
    IF found = 0
    THEN IF index = 0
         THEN Prog("EEA_NONE", "EHA_LIT", "ETA_NOOP", FALSE, FALSE)
         ELSE IF risk = 0
         THEN Prog("EEA_INS_LIT", "EHA_LIT", "ETA_NEW", FALSE, FALSE)
         ELSE Prog("EEA_INS_LIT", "EHA_INDEXED_NEW", "ETA_NEW", FALSE, TRUE)
    ELSE IF table_type = TT_STATIC
    THEN IF value_match = 1
         THEN Prog("EEA_NONE", "EHA_INDEXED_STAT", "ETA_NOOP", FALSE, FALSE)
         ELSE IF index = 0
         THEN Prog("EEA_NONE", "EHA_LIT_WITH_NAME_STAT", "ETA_NOOP",
                   FALSE, FALSE)
         ELSE IF risk = 0
         THEN Prog("EEA_INS_NAMEREF", "EHA_LIT_WITH_NAME_STAT", "ETA_NEW",
                   FALSE, FALSE)
         ELSE Prog("EEA_INS_NAMEREF", "EHA_INDEXED_NEW", "ETA_NEW",
                   FALSE, TRUE)
    ELSE IF value_match = 1
         THEN Prog("EEA_NONE", "EHA_INDEXED_DYN", "ETA_NOOP", TRUE, FALSE)
         ELSE IF index = 0
         THEN Prog("EEA_NONE", "EHA_LIT_WITH_NAME_DYN", "ETA_NOOP",
                   TRUE, FALSE)
         ELSE Prog("EEA_INS_NAMEREF", "EHA_LIT_WITH_NAME_NEW", "ETA_NEW",
                   TRUE, TRUE)

RECURSIVE EvictScan(_, _, _, _)
\* the STAILQ_FOREACH of enc_has_or_can_evict_at_least: cutoff is the id
\* stored in search_cutoff when the scan succeeds, 0 when it fails
EvictScan(entries, avail, new_entry_size, min_id) ==
    IF entries = <<>> THEN 0
    ELSE IF Head(entries).ete_id < min_id
    THEN IF avail + ETE_SIZE(Head(entries)) >= new_entry_size
         THEN Head(entries).ete_id
         ELSE EvictScan(Tail(entries), avail + ETE_SIZE(Head(entries)),
                        new_entry_size, min_id)
    ELSE 0

\* enc_has_or_can_evict_at_least taking every entry for evictable
can_evict_referenced(enc, new_entry_size) ==
    LET avail == enc.qpe_max_capacity - enc.qpe_cur_capacity
        min_id == enc.qpe_ins_count + 1
        cutoff == EvictScan(enc.qpe_all_entries, avail, new_entry_size,
                            min_id)
    IN  IF avail >= new_entry_size THEN [r |-> 1, enc |-> enc]
        ELSE IF cutoff # 0
        THEN [r |-> 1,
              enc |-> [enc EXCEPT !.qpe_cur_header.search_cutoff = cutoff]]
        ELSE [r |-> 0, enc |-> enc]

enc_has_or_can_evict_at_least(enc, new_entry_size) ==
    LET avail == enc.qpe_max_capacity - enc.qpe_cur_capacity
        min_id == 0
        cutoff == EvictScan(enc.qpe_all_entries, avail, new_entry_size,
                            min_id)
    IN  IF avail >= new_entry_size THEN [r |-> 1, enc |-> enc]
        ELSE IF cutoff # 0
        THEN [r |-> 1,
              enc |-> [enc EXCEPT !.qpe_cur_header.search_cutoff = cutoff]]
        ELSE [r |-> 0, enc |-> enc]

\* dst = lsqpack_enc_int(dst, end, id, prefix_bits), then, when with_str,
\* lsqpack_enc_enc_str(7, dst, end - dst, str): st is "OK", "NOBUF" or
\* "ABORT" (the assert of lsqpack_enc_int)
EncIntStr(first, room, id, prefix_bits, with_str, str) ==
    LET i == Call("lsqpack_enc_int", <<first, room, U64(id), prefix_bits>>)
        s == Call("lsqpack_enc_enc_str", <<7, 0, room - Len(i.bytes), str>>)
    IN  IF ~i.ok THEN [st |-> "ABORT", bytes |-> <<>>]
        ELSE IF i.bytes = <<>> THEN [st |-> "NOBUF", bytes |-> <<>>]
        ELSE IF ~with_str THEN [st |-> "OK", bytes |-> i.bytes]
        ELSE IF s.r < 0 THEN [st |-> "NOBUF", bytes |-> <<>>]
        ELSE [st |-> "OK", bytes |-> i.bytes \o s.bytes]

\* two lsqpack_enc_enc_str calls in a row: the name with prefix_bits and
\* first byte first, then the value with a 7-bit prefix
EncStrStr(first, room, prefix_bits, name, value) ==
    LET n == Call("lsqpack_enc_enc_str", <<prefix_bits, first, room, name>>)
        v == Call("lsqpack_enc_enc_str", <<7, 0, room - Len(n.bytes), value>>)
    IN  IF n.r < 0 \/ v.r < 0 THEN [st |-> "NOBUF", bytes |-> <<>>]
        ELSE [st |-> "OK", bytes |-> n.bytes \o v.bytes]

\* switch (prog.ep_enc_action)
EncStreamOut(enc, esr, prog, enc_sz, name, value) ==
    IF prog.ep_enc_action = "EEA_INS_NAMEREF"
    THEN IF esr.esr_table_type = TT_STATIC
         THEN EncIntStr(192, enc_sz, esr.esr_entry_id, 6, TRUE, value)
         ELSE EncIntStr(128, enc_sz, enc.qpe_ins_count - esr.esr_entry_id,
                        6, TRUE, value)
    ELSE IF prog.ep_enc_action = "EEA_INS_LIT"
    THEN EncStrStr(64, enc_sz, 5, name, value)
    ELSE [st |-> "OK", bytes |-> <<>>]

\* the label post_base_idx
PostBaseIdx(enc, id, hea_sz) ==
    IF ~(id > enc.qpe_cur_header.base_idx)
    THEN [st |-> "ABORT", bytes |-> <<>>]
    ELSE EncIntStr(16, hea_sz, id - enc.qpe_cur_header.base_idx, 4,
                   FALSE, <<>>)

\* the label post_base_name_ref
PostBaseNameRef(enc, id, hea_sz, no_index, value) ==
    IF ~(id > enc.qpe_cur_header.base_idx)
    THEN [st |-> "ABORT", bytes |-> <<>>]
    ELSE EncIntStr(no_index * 8, hea_sz, id - enc.qpe_cur_header.base_idx,
                   3, TRUE, value)

\* switch (prog.ep_hea_action); no_index is (flags & LQEF_NO_INDEX) > 0
HeaderOut(enc, esr, prog, hea_sz, name, value, no_index) ==
    LET a == prog.ep_hea_action
        base_idx == enc.qpe_cur_header.base_idx
    IN  CASE a = "EHA_INDEXED_STAT" ->
               EncIntStr(192, hea_sz, esr.esr_entry_id, 6, FALSE, <<>>)
          [] a = "EHA_INDEXED_NEW" ->
               PostBaseIdx(enc, enc.qpe_ins_count + 1, hea_sz)
          [] a = "EHA_INDEXED_DYN" ->
               IF esr.esr_entry_id > base_idx
               THEN PostBaseIdx(enc, esr.esr_entry_id, hea_sz)
               ELSE EncIntStr(128, hea_sz, esr.esr_entry_id, 6, FALSE, <<>>)
          [] a = "EHA_LIT" ->
               EncStrStr(32 + no_index * 16, hea_sz, 3, name, value)
          [] a = "EHA_LIT_WITH_NAME_NEW" ->
               PostBaseNameRef(enc, esr.esr_entry_id, hea_sz, no_index, value)
          [] a = "EHA_LIT_WITH_NAME_DYN" ->
               IF esr.esr_entry_id > base_idx
               THEN PostBaseNameRef(enc, esr.esr_entry_id, hea_sz, no_index,
                                    value)
               ELSE EncIntStr(64 + no_index * 32, hea_sz,
                              base_idx - esr.esr_entry_id, 4, TRUE, value)
          [] OTHER ->
               EncIntStr(64 + no_index * 32 + 16, hea_sz, esr.esr_entry_id,
                         4, TRUE, value)

\* ++entry->ete_n_reffd for the entry with this id
EncRefEntry(entries, id) ==
    [k \in 1..Len(entries) |->
        IF entries[k].ete_id = id
        THEN [entries[k] EXCEPT !.ete_n_reffd = @ + 1]
        ELSE entries[k]]

\* if (prog.ep_flags & EPF_REF_NEW) { ... } after a successful push
EncRefNew(enc, new_id) ==
    [enc EXCEPT
        !.qpe_all_entries = EncRefEntry(@, new_id),
        !.qpe_cur_header.hinfo.qhi_max_id = new_id,
        !.qpe_cur_header.n_risked = @ + 1,
        !.qpe_cur_header.hinfo.qhi_min_id =
            IF @ = 0 \/ @ > new_id THEN new_id ELSE @]

\* if (prog.ep_flags & EPF_REF_FOUND) { ... }
EncRefFound(enc, id) ==
    [enc EXCEPT
        !.qpe_all_entries = EncRefEntry(@, id),
        !.qpe_cur_header.n_risked =
            @ + (IF enc.qpe_max_acked_id < id THEN 1 ELSE 0),
        !.qpe_cur_header.hinfo.qhi_min_id =
            IF @ = 0 \/ @ > id THEN id ELSE @,
        !.qpe_cur_header.hinfo.qhi_max_id =
            IF @ = 0 \/ @ < id THEN id ELSE @]

\* what lsqpack_enc_encode hands back; ref is the id of the dynamic entry
\* that the bytes written to the header buffer refer to, 0 when none
EncRet(status, enc_bytes, hea_bytes, enc, ref) ==
    [status |-> status, enc_bytes |-> enc_bytes, hea_bytes |-> hea_bytes,
     enc |-> enc, ref |-> ref]

\* the id that the header action puts on the wire (before it is made
\* relative to the base index)
HeaRef(enc, esr, prog) ==
    LET a == prog.ep_hea_action
    IN  IF a = "EHA_INDEXED_NEW" THEN enc.qpe_ins_count + 1
        ELSE IF a \in {"EHA_INDEXED_DYN", "EHA_LIT_WITH_NAME_DYN",
                       "EHA_LIT_WITH_NAME_NEW"}
        THEN esr.esr_entry_id
        ELSE 0

RECURSIVE EncodeRestart(_, _, _, _, _, _, _, _)

\* lsqpack_enc_encode from the label restart with the table action moved
\* before the write to the header buffer: the entry is pushed when the
\* header buffer turns out too small
encode_push_before_header(enc, enc_sz, hea_sz, name, value, no_index, index, alloc) ==
    LET hdr == enc.qpe_cur_header
        risk == IF \/ hdr.n_risked > 0
                   \/ hdr.others_at_risk # 0
                   \/ enc.qpe_cur_streams_at_risk < enc.qpe_max_risked_streams
                THEN 1 ELSE 0
        esr == Call("qenc_find_entry", <<enc, risk, name, value>>)
        prog == Call("encode_programs", <<esr.esr_found, esr.esr_table_type,
                                esr.esr_value_match, index, risk>>)
        eo == EncStreamOut(enc, esr, prog, enc_sz, name, value)
        ho == HeaderOut(enc, esr, prog, hea_sz, name, value, no_index)
        pushed == Call("lsqpack_enc_push_entry", <<enc, name, value, alloc>>)
        e1 == IF prog.ep_tab_action = "ETA_NEW"
              THEN IF prog.EPF_REF_NEW
                   THEN EncRefNew(pushed.enc, pushed.entry_id)
                   ELSE pushed.enc
              ELSE enc
        e2 == IF prog.EPF_REF_FOUND
              THEN EncRefFound(e1, esr.esr_entry_id) ELSE e1
    IN  IF eo.st = "ABORT" THEN EncRet("ABORT", <<>>, <<>>, enc, 0)
        ELSE IF eo.st = "NOBUF" THEN EncRet("LQES_NOBUF_ENC", <<>>, <<>>, enc, 0)
        ELSE IF ho.st = "ABORT" THEN EncRet("ABORT", <<>>, <<>>, enc, 0)
        ELSE IF ho.st = "NOBUF"
        THEN EncRet("LQES_NOBUF_HEAD", <<>>, <<>>,
                    IF prog.ep_tab_action = "ETA_NEW" THEN pushed.enc
                    ELSE enc, 0)
        ELSE IF prog.ep_tab_action = "ETA_NEW" /\ pushed.entry_id = 0
        THEN Call("EncodeRestart", <<pushed.enc, enc_sz, hea_sz, name, value, no_index,
                           0, "none">>)
        ELSE IF /\ prog.ep_tab_action = "ETA_NEW" /\ prog.EPF_REF_NEW
                /\ ~(pushed.entry_id > hdr.hinfo.qhi_max_id)
        THEN EncRet("ABORT", <<>>, <<>>, pushed.enc, 0)
        ELSE EncRet("LQES_OK", eo.bytes, ho.bytes, e2, HeaRef(enc, esr, prog))

\* lsqpack_enc_encode from the label restart.  status is LQES_OK,
\* LQES_NOBUF_ENC, LQES_NOBUF_HEAD, or ABORT for a failed assert;
\* enc_bytes and hea_bytes are the *enc_sz_p and *hea_sz_p bytes the
\* caller takes from the two buffers when the status is LQES_OK.
EncodeRestart(enc, enc_sz, hea_sz, name, value, no_index, index, alloc) ==
    LET hdr == enc.qpe_cur_header
        risk == IF \/ hdr.n_risked > 0
                   \/ hdr.others_at_risk # 0
                   \/ enc.qpe_cur_streams_at_risk < enc.qpe_max_risked_streams
                THEN 1 ELSE 0
        esr == Call("qenc_find_entry", <<enc, risk, name, value>>)
        prog == Call("encode_programs", <<esr.esr_found, esr.esr_table_type,
                                esr.esr_value_match, index, risk>>)
        eo == EncStreamOut(enc, esr, prog, enc_sz, name, value)
        ho == HeaderOut(enc, esr, prog, hea_sz, name, value, no_index)
        pushed == Call("lsqpack_enc_push_entry", <<enc, name, value, alloc>>)
        e1 == IF prog.ep_tab_action = "ETA_NEW"
              THEN IF prog.EPF_REF_NEW
                   THEN EncRefNew(pushed.enc, pushed.entry_id)
                   ELSE pushed.enc
              ELSE enc
        e2 == IF prog.EPF_REF_FOUND
              THEN EncRefFound(e1, esr.esr_entry_id) ELSE e1
    IN  IF eo.st = "ABORT" THEN EncRet("ABORT", <<>>, <<>>, enc, 0)
        ELSE IF eo.st = "NOBUF" THEN EncRet("LQES_NOBUF_ENC", <<>>, <<>>, enc, 0)
        ELSE IF ho.st = "ABORT" THEN EncRet("ABORT", <<>>, <<>>, enc, 0)
        ELSE IF ho.st = "NOBUF"
        THEN EncRet("LQES_NOBUF_HEAD", <<>>, <<>>, enc, 0)
        ELSE IF prog.ep_tab_action = "ETA_NEW" /\ pushed.entry_id = 0
        THEN EncodeRestart(pushed.enc, enc_sz, hea_sz, name, value, no_index,
                           0, "none")
        ELSE IF /\ prog.ep_tab_action = "ETA_NEW" /\ prog.EPF_REF_NEW
                /\ ~(pushed.entry_id > hdr.hinfo.qhi_max_id)
        THEN EncRet("ABORT", <<>>, <<>>, pushed.enc, 0)
        ELSE EncRet("LQES_OK", eo.bytes, ho.bytes, e2, HeaRef(enc, esr, prog))

\* lsqpack_enc_encode(enc, enc_buf, &enc_sz, hea_buf, &hea_sz, name,
\* name_len, value, value_len, flags).  The conjunct qpe_ins_count <
\* LSQPACK_MAX_ABS_ID of index holds in every state of the model.
lsqpack_enc_encode(enc, enc_sz, hea_sz, name, value, no_index, alloc) ==
    IF hea_sz = 0 THEN EncRet("LQES_NOBUF_HEAD", <<>>, <<>>, enc, 0)
    ELSE LET try == no_index = 0 /\ enc.qpe_cur_header.use_dynamic_table = 1
             can == Call("enc_has_or_can_evict_at_least", <<
                        enc, ENTRY_COST(Len(name), Len(value))>>)
         IN  IF try /\ can.r = 1
             THEN Call("EncodeRestart", <<can.enc, enc_sz, hea_sz, name, value,
                                no_index, 1, alloc>>)
             ELSE Call("EncodeRestart", <<IF try THEN can.enc ELSE enc, enc_sz, hea_sz,
                                name, value, no_index, 0, alloc>>)

\* lsqpack_enc_set_max_capacity without its call of
\* qenc_remove_overflow_entries
set_max_capacity_no_removal(enc, max_capacity) ==
    [enc EXCEPT !.qpe_max_capacity = max_capacity]

lsqpack_enc_set_max_capacity(enc, max_capacity) ==
    qenc_remove_overflow_entries(
        [enc EXCEPT !.qpe_max_capacity = max_capacity])


----------------------------------------------------------------------------
(* Encoder: the decoder stream *)

\* enc_proc_header_ack: both branches return -1
enc_proc_header_ack(enc, stream_id) == [r |-> -1, enc |-> enc]

\* enc_proc_table_synch: both branches return -1
enc_proc_table_synch(enc, abs_id) == [r |-> -1, enc |-> enc]

\* enc_proc_stream_cancel: both branches return -1
enc_proc_stream_cancel(enc, stream_id) == [r |-> -1, enc |-> enc]

\* r = enc->qpe_dec_stream_state.handler(enc, val)
DecStreamHandler(enc, val) ==
    CASE enc.qpe_dec_stream_state.handler = "enc_proc_header_ack" ->
             enc_proc_header_ack(enc, val)
      [] enc.qpe_dec_stream_state.handler = "enc_proc_table_synch" ->
             enc_proc_table_synch(enc, val)
      [] OTHER -> enc_proc_stream_cancel(enc, val)

\* case 0 of the switch of lsqpack_enc_decoder_in: the handler and the
\* prefix are chosen from buf[0].  The tests mask with 0xC: a byte with
\* bits 2 and 3 clear goes to enc_proc_table_synch, and for every other
\* byte the assert (buf[0] & 0xC) == 0x40 fails.
DecStreamFirstByte(b) ==
    IF HasBit(b, 128)
    THEN [prefix_bits |-> 7, handler |-> "enc_proc_header_ack",
          abort |-> FALSE]
    ELSE IF (b \div 4) % 4 = 0
    THEN [prefix_bits |-> 6, handler |-> "enc_proc_table_synch",
          abort |-> FALSE]
    ELSE [prefix_bits |-> 6, handler |-> "enc_proc_stream_cancel",
          abort |-> TRUE]

RECURSIVE DecoderInLoop(_, _, _)
\* while (buf < end) switch (...dec_int_state.resume) ..., buf at index i.
\* prefix_bits is not used by lsqpack_dec_int in a resumed call.
DecoderInLoop(enc, buf, i) ==
    IF i > Len(buf) THEN [r |-> 0, abort |-> FALSE, enc |-> enc]
    ELSE LET st == enc.qpe_dec_stream_state
             fb == DecStreamFirstByte(buf[i])
             fresh == st.dec_int_state.resume = 0
             e1 == IF fresh
                   THEN [enc EXCEPT !.qpe_dec_stream_state.handler = fb.handler]
                   ELSE enc
             di == Call("lsqpack_dec_int", <<buf, i, IF fresh THEN fb.prefix_bits ELSE 0,
                                   st.dec_int_state>>)
             hr == DecStreamHandler(e1, di.val)
         IN  IF fresh /\ fb.abort
             THEN [r |-> -1, abort |-> TRUE, enc |-> enc]
             ELSE IF di.r = 0
             THEN IF hr.r # 0
                  THEN [r |-> -1, abort |-> FALSE, enc |-> hr.enc]
                  ELSE DecoderInLoop(
                           [hr.enc EXCEPT
                               !.qpe_dec_stream_state.dec_int_state.resume = 0],
                           buf, di.pos)
             ELSE IF di.r = -1
             THEN [r |-> 0, abort |-> FALSE,
                   enc |-> [e1 EXCEPT
                               !.qpe_dec_stream_state.dec_int_state = di.st]]
             ELSE [r |-> -1, abort |-> FALSE, enc |-> e1]

\* lsqpack_enc_decoder_in(enc, buf, buf_sz): r is 0 or -1, abort tells a
\* failed assert
lsqpack_enc_decoder_in(enc, buf) == DecoderInLoop(enc, buf, 1)
----------------------------------------------------------------------------
(* Decoder: table, blocked-header heap, reference counts *)

\* NULL for pointers to table entries; entries are named by the address
\* they get when they are pushed, which is their absolute id
NULL == 0

DTE_SIZE(entry) == ENTRY_COST(Len(entry.name), Len(entry.val))

\* swap two elements of a heap array (0-based i and j)
MhSwap(elems, i, j) ==
    [elems EXCEPT ![i + 1] = elems[j + 1], ![j + 1] = elems[i + 1]]

RECURSIVE mh_heapify(_, _)
\* mh_heapify(heap, i): elems is mh_elems[0 .. mh_nelem - 1]
mh_heapify(elems, i) ==
    LET n == Len(elems)
        l == 2 * i + 1
        r == 2 * i + 2
        s1 == IF l < n
              THEN IF elems[l + 1].mhe_max_id < elems[i + 1].mhe_max_id
                   THEN l ELSE i
              ELSE i
        smallest == IF l < n /\ r < n
                       /\ elems[r + 1].mhe_max_id < elems[s1 + 1].mhe_max_id
                    THEN r ELSE s1
    IN  IF smallest # i
        THEN mh_heapify(MhSwap(elems, smallest, i), smallest)
        ELSE elems

RECURSIVE MhSiftUp(_, _)
\* the while loop of mh_insert
MhSiftUp(elems, i) ==
    IF i > 0 /\ elems[((i - 1) \div 2) + 1].mhe_max_id > elems[i + 1].mhe_max_id
    THEN MhSiftUp(MhSwap(elems, (i - 1) \div 2, i), (i - 1) \div 2)
    ELSE elems

\* mh_insert(heap, conn, val), the realloc succeeding
mh_insert(elems, conn, val) ==
    MhSiftUp(Append(elems, [mhe_hbrc |-> conn, mhe_max_id |-> val]),
             Len(elems))

\* mh_pop(heap, largest_id): hbrc is NULL when nothing is popped
mh_pop(elems, largest_id) ==
    IF Len(elems) = 0 \/ elems[1].mhe_max_id > largest_id
    THEN [hbrc |-> NULL, elems |-> elems]
    ELSE [hbrc |-> elems[1].mhe_hbrc,
          elems |-> IF Len(elems) > 1
                    THEN Call("mh_heapify", <<
                             <<elems[Len(elems)]>>
                                 \o SubSeq(elems, 2, Len(elems) - 1), 0>>)
                    ELSE <<>>]

\* dec->qpd_enc_state.  The members of ctx_u all begin with their
\* dec_int_state, so the model keeps one; entry is the entry being built
\* (a record [name, val]; built is FALSE for a NULL pointer).  When an
\* instruction is complete the record is set back to this value: every
\* instruction writes the fields it reads before it reads them.
EncState0 ==
    [resume |-> "DEI_NEXT_INST", dec_int_state |-> DecIntState0,
     dec_huff_state |-> HuffState0, is_static |-> FALSE,
     is_huffman |-> FALSE, name_idx |-> 0, reffed_entry |-> NULL,
     built |-> FALSE, entry |-> [name |-> <<>>, val |-> <<>>],
     name |-> <<>>, val_len |-> 0, alloced_val_len |-> 0, nread |-> 0,
     val_off |-> 0, str_len |-> 0, alloced_len |-> 0, str_off |-> 0]

\* lsqpack_dec_init.  mem is the heap of table entries: address |->
\* [name, val, dte_refcnt, freed]; cb lists the callbacks made by the API
\* call in progress, as <<"wantread", stream, on>> and
\* <<"header_block_done", stream, header set>>.
lsqpack_dec_init(dyn_table_size, max_risked_streams) ==
    [qpd_max_capacity |-> dyn_table_size,
     qpd_cur_max_capacity |-> dyn_table_size,
     qpd_cur_capacity |-> 0,
     qpd_max_risked_streams |-> max_risked_streams,
     qpd_ins_count |-> 0,
     qpd_del_count |-> 0,
     qpd_dyn_table |-> <<>>,
     qpd_blocked_headers |-> <<>>,
     qpd_hbrcs |-> <<>>,
     qpd_enc_state |-> EncState0,
     mem |-> <<>>,
     cb |-> <<>>]

\* qdec_get_table_entry_rel with index 0 taken for the entry before the
\* newest
get_table_entry_rel_one_off(dec, relative_idx) ==
    IF relative_idx + 1 < Len(dec.qpd_dyn_table)
    THEN dec.qpd_dyn_table[Len(dec.qpd_dyn_table) - relative_idx - 1]
    ELSE NULL

\* qdec_get_table_entry_rel: the address of the entry, or NULL
qdec_get_table_entry_rel(dec, relative_idx) ==
    IF relative_idx < Len(dec.qpd_dyn_table)
    THEN dec.qpd_dyn_table[Len(dec.qpd_dyn_table) - relative_idx]
    ELSE NULL

\* qdec_get_table_entry_abs with the lower test left out and the position
\* kept inside the array: an evicted id gives the oldest entry
get_table_entry_abs_clamped(dec, abs_idx) ==
    IF abs_idx <= dec.qpd_ins_count /\ dec.qpd_dyn_table # <<>>
    THEN dec.qpd_dyn_table[IF abs_idx > dec.qpd_del_count
                           THEN abs_idx - dec.qpd_del_count ELSE 1]
    ELSE NULL

\* qdec_get_table_entry_abs; the assert holds because the table holds
\* qpd_ins_count - qpd_del_count entries
qdec_get_table_entry_abs(dec, abs_idx) ==
    IF abs_idx > dec.qpd_del_count /\ abs_idx <= dec.qpd_ins_count
    THEN dec.qpd_dyn_table[abs_idx - dec.qpd_del_count]
    ELSE NULL

\* ++entry->dte_refcnt
DecRef1(dec, addr) ==
    [dec EXCEPT !.mem[addr].dte_refcnt = @ + 1]

\* qdec_decref_entry: free(entry) when the count reaches 0
qdec_decref_entry(dec, addr) ==
    [dec EXCEPT !.mem[addr].dte_refcnt = @ - 1,
                !.mem[addr].freed = (dec.mem[addr].dte_refcnt - 1 = 0)]

\* qdec_drop_oldest_entry with free(entry) in place of
\* qdec_decref_entry(entry)
drop_oldest_and_free(dec) ==
    LET addr == Head(dec.qpd_dyn_table)
    IN  [dec EXCEPT !.qpd_dyn_table = Tail(@),
                    !.qpd_cur_capacity = @ - DTE_SIZE(dec.mem[addr]),
                    !.mem[addr].freed = TRUE,
                    !.qpd_del_count = @ + 1]

\* qdec_drop_oldest_entry without ++dec->qpd_del_count
drop_oldest_without_count(dec) ==
    LET addr == Head(dec.qpd_dyn_table)
        d1 == [dec EXCEPT !.qpd_dyn_table = Tail(@),
                          !.qpd_cur_capacity = @ - DTE_SIZE(dec.mem[addr])]
    IN  qdec_decref_entry(d1, addr)

qdec_drop_oldest_entry(dec) ==
    LET addr == Head(dec.qpd_dyn_table)
        d1 == [dec EXCEPT !.qpd_dyn_table = Tail(@),
                          !.qpd_cur_capacity = @ - DTE_SIZE(dec.mem[addr])]
    IN  [qdec_decref_entry(d1, addr) EXCEPT !.qpd_del_count = @ + 1]

RECURSIVE qdec_remove_overflow_entries(_)
qdec_remove_overflow_entries(dec) ==
    IF dec.qpd_cur_capacity > dec.qpd_cur_max_capacity
    THEN qdec_remove_overflow_entries(qdec_drop_oldest_entry(dec))
    ELSE dec

\* qdec_update_max_capacity without qdec_remove_overflow_entries
update_max_capacity_no_eviction(dec, new_capacity) ==
    [dec EXCEPT !.qpd_cur_max_capacity = new_capacity]

qdec_update_max_capacity(dec, new_capacity) ==
    qdec_remove_overflow_entries(
        [dec EXCEPT !.qpd_cur_max_capacity = new_capacity])

\* read_ctx->hbrc_flags &= ~HBRC_BLOCKED for the context of this stream
HbrcUnblock(hbrcs, stream) ==
    [k \in 1..Len(hbrcs) |->
        IF hbrcs[k].hbrc_stream = stream
        THEN [hbrcs[k] EXCEPT !.blocked = FALSE] ELSE hbrcs[k]]

\* qdec_process_blocked_headers with an if in place of its while: one
\* context at most is taken from the heap
process_one_blocked_header(dec) ==
    LET p == Call("mh_pop", <<dec.qpd_blocked_headers, dec.qpd_ins_count>>)
    IN  IF p.hbrc = NULL THEN dec
        ELSE [dec EXCEPT !.qpd_blocked_headers = p.elems,
                         !.qpd_hbrcs = HbrcUnblock(@, p.hbrc),
                         !.cb = Append(@, <<"wantread", p.hbrc, 1>>)]

RECURSIVE qdec_process_blocked_headers(_)
qdec_process_blocked_headers(dec) ==
    LET p == Call("mh_pop", <<dec.qpd_blocked_headers, dec.qpd_ins_count>>)
    IN  IF p.hbrc = NULL THEN dec
        ELSE qdec_process_blocked_headers(
                 [dec EXCEPT !.qpd_blocked_headers = p.elems,
                             !.qpd_hbrcs = HbrcUnblock(@, p.hbrc),
                             !.cb = Append(@, <<"wantread", p.hbrc, 1>>)])

\* lsqpack_dec_push_entry, lsqpack_arr_push succeeding; entry is the
\* record [name, val] built by the caller with dte_refcnt = 1
lsqpack_dec_push_entry(dec, entry) ==
    LET addr == dec.qpd_ins_count + 1
        d1 == [dec EXCEPT
                  !.mem = Append(@, [name |-> entry.name, val |-> entry.val,
                                     dte_refcnt |-> 1, freed |-> FALSE]),
                  !.qpd_dyn_table = Append(@, addr),
                  !.qpd_cur_capacity = @ + DTE_SIZE(entry),
                  !.qpd_ins_count = @ + 1]
    IN  Call("qdec_process_blocked_headers", <<qdec_remove_overflow_entries(d1)>>)

lsqpack_dec_set_max_capacity(dec, max_capacity) ==
    qdec_update_max_capacity(
        [dec EXCEPT !.qpd_max_capacity = max_capacity], max_capacity)

----------------------------------------------------------------------------
(* Decoder: the encoder stream *)

\* one call of lsqpack_huff_decode on the bytes of buf from i on, at most
\* remaining of them, with room bytes left at the destination
HuffStep(buf, i, remaining, room, hs) ==
    LET size == Min(Len(buf) - i + 1, remaining)
    IN  Call("lsqpack_huff_decode", <<SubSeq(buf, i, i + size - 1), room, hs,
                            size = remaining>>)

\* the result of one pass through the switch: go on with the loop at
\* buf + i ("break"), or return r
DeiBreak(dec, i) == [ret |-> FALSE, r |-> 0, dec |-> dec, i |-> i]
DeiReturn(dec, r) == [ret |-> TRUE, r |-> r, dec |-> dec, i |-> 0]

\* r = lsqpack_dec_int(...) != 0: return 0 when out of input, else -1
DeiIntFail(dec, di) ==
    DeiReturn([dec EXCEPT !.qpd_enc_state.dec_int_state = di.st],
              IF di.r = -1 THEN 0 ELSE -1)

\* case DEI_WINR_READ_NAME_IDX
DeiWinrReadNameIdx(dec, buf, i, prefix_bits) ==
    LET es == dec.qpd_enc_state
        di == Call("lsqpack_dec_int", <<buf, i, prefix_bits, es.dec_int_state>>)
        d1 == [dec EXCEPT !.qpd_enc_state.dec_int_state = di.st,
                          !.qpd_enc_state.name_idx = di.val]
        reffed == Call("qdec_get_table_entry_rel", <<dec, di.val>>)
    IN  IF di.r # 0 THEN DeiIntFail(dec, di)
        ELSE IF es.is_static
        THEN IF di.val < 1 \/ di.val > QPACK_STATIC_TABLE_SIZE
             THEN DeiReturn(d1, -1)
             ELSE DeiBreak([d1 EXCEPT !.qpd_enc_state.resume =
                                          "DEI_WINR_BEGIN_READ_VAL_LEN"],
                           di.pos)
        ELSE IF reffed = NULL THEN DeiReturn(d1, -1)
        ELSE DeiBreak([DecRef1(d1, reffed) EXCEPT
                          !.qpd_enc_state.reffed_entry = reffed,
                          !.qpd_enc_state.resume =
                              "DEI_WINR_BEGIN_READ_VAL_LEN"],
                      di.pos)

\* case DEI_WINR_READ_VAL_LEN, entered from DEI_WINR_BEGIN_READ_VAL_LEN
\* when begin is TRUE
DeiWinrReadValLen(dec0, buf, i, begin) ==
    LET dec == IF begin
               THEN [dec0 EXCEPT
                        !.qpd_enc_state.is_huffman = HasBit(buf[i], 128),
                        !.qpd_enc_state.dec_int_state.resume = 0,
                        !.qpd_enc_state.resume = "DEI_WINR_READ_VAL_LEN"]
               ELSE dec0
        es == dec.qpd_enc_state
        di == Call("lsqpack_dec_int", <<buf, i, 7, es.dec_int_state>>)
        name == IF es.is_static THEN static_table[es.name_idx].name
                ELSE dec.mem[es.reffed_entry].name
    IN  IF di.r # 0 THEN DeiIntFail(dec, di)
        ELSE DeiBreak(
               [dec EXCEPT
                  !.qpd_enc_state =
                      [es EXCEPT
                          !.dec_int_state = di.st,
                          !.val_len = di.val,
                          !.name = name,
                          !.alloced_val_len =
                              IF es.is_huffman
                              THEN di.val + (di.val \div 4) ELSE di.val,
                          !.built = TRUE,
                          !.entry = [name |-> <<>>, val |-> <<>>],
                          !.nread = 0,
                          !.val_off = 0,
                          !.dec_huff_state =
                              IF es.is_huffman
                              THEN [es.dec_huff_state EXCEPT !.resume = 0]
                              ELSE es.dec_huff_state,
                          !.resume =
                              IF es.is_huffman
                              THEN "DEI_WINR_READ_VALUE_HUFFMAN"
                              ELSE "DEI_WINR_READ_VALUE_PLAIN"]],
               di.pos)

\* the end of an insertion with name reference: the name is copied, the
\* reference on the named entry is dropped and the entry is pushed
DeiWinrPush(dec, val) ==
    LET es == dec.qpd_enc_state
        d1 == IF es.reffed_entry # NULL
              THEN qdec_decref_entry(dec, es.reffed_entry) ELSE dec
        d2 == Call("lsqpack_dec_push_entry", <<d1, [name |-> es.name, val |-> val]>>)
    IN  [d2 EXCEPT !.qpd_enc_state = EncState0]

\* case DEI_WINR_READ_VALUE_HUFFMAN
DeiWinrReadValueHuffman(dec, buf, i) ==
    LET es == dec.qpd_enc_state
        hdr == HuffStep(buf, i, es.val_len - es.nread,
                        es.alloced_val_len - es.val_off, es.dec_huff_state)
        more == [es EXCEPT !.dec_huff_state = hdr.hs,
                           !.entry.val = @ \o hdr.out,
                           !.nread = @ + hdr.n_src,
                           !.val_off = @ + hdr.n_dst]
    IN  CASE hdr.status = "OK" ->
               DeiBreak(DeiWinrPush(dec, es.entry.val \o hdr.out),
                        i + hdr.n_src)
          [] hdr.status = "END_SRC" ->
               DeiBreak([dec EXCEPT !.qpd_enc_state = more], i + hdr.n_src)
          [] hdr.status = "END_DST" ->
               DeiBreak([dec EXCEPT !.qpd_enc_state =
                            [more EXCEPT !.alloced_val_len = @ * 2]],
                        i + hdr.n_src)
          [] OTHER ->
               DeiReturn([dec EXCEPT !.qpd_enc_state.dec_huff_state = hdr.hs],
                         -1)

\* case DEI_WINR_READ_VALUE_PLAIN; alloced_val_len is val_len here, so the
\* realloc is never taken
DeiWinrReadValuePlain(dec, buf, i) ==
    LET es == dec.qpd_enc_state
        size == Min(Len(buf) - i + 1, es.val_len - es.val_off)
        val == es.entry.val \o SubSeq(buf, i, i + size - 1)
    IN  IF es.val_off + size = es.val_len
        THEN DeiBreak(DeiWinrPush(dec, val), i + size)
        ELSE DeiBreak([dec EXCEPT !.qpd_enc_state.entry.val = val,
                                  !.qpd_enc_state.val_off = @ + size],
                      i + size)

\* case DEI_WONR_READ_NAME_LEN
DeiWonrReadNameLen(dec, buf, i, prefix_bits) ==
    LET es == dec.qpd_enc_state
        di == Call("lsqpack_dec_int", <<buf, i, prefix_bits, es.dec_int_state>>)
    IN  IF di.r # 0 THEN DeiIntFail(dec, di)
        ELSE DeiBreak(
               [dec EXCEPT
                  !.qpd_enc_state =
                      [es EXCEPT
                          !.dec_int_state = di.st,
                          !.str_len = di.val,
                          !.alloced_len = di.val * 2,
                          !.built = TRUE,
                          !.entry = [name |-> <<>>, val |-> <<>>],
                          !.nread = 0,
                          !.str_off = 0,
                          !.dec_huff_state =
                              IF es.is_huffman
                              THEN [es.dec_huff_state EXCEPT !.resume = 0]
                              ELSE es.dec_huff_state,
                          !.resume =
                              IF es.is_huffman
                              THEN "DEI_WONR_READ_NAME_HUFFMAN"
                              ELSE "DEI_WONR_READ_NAME_PLAIN"]],
               di.pos)

\* case DEI_WONR_READ_NAME_HUFFMAN
DeiWonrReadNameHuffman(dec, buf, i) ==
    LET es == dec.qpd_enc_state
        hdr == HuffStep(buf, i, es.str_len - es.nread,
                        es.alloced_len - es.str_off, es.dec_huff_state)
        more == [es EXCEPT !.dec_huff_state = hdr.hs,
                           !.entry.name = @ \o hdr.out,
                           !.nread = @ + hdr.n_src,
                           !.str_off = @ + hdr.n_dst]
    IN  CASE hdr.status = "OK" ->
               DeiBreak([dec EXCEPT !.qpd_enc_state =
                            [es EXCEPT !.dec_huff_state = hdr.hs,
                                       !.entry.name = @ \o hdr.out,
                                       !.resume =
                                           "DEI_WONR_BEGIN_READ_VAL_LEN"]],
                        i + hdr.n_src)
          [] hdr.status = "END_SRC" ->
               DeiBreak([dec EXCEPT !.qpd_enc_state = more], i + hdr.n_src)
          [] hdr.status = "END_DST" ->
               DeiBreak([dec EXCEPT !.qpd_enc_state =
                            [more EXCEPT !.alloced_len = @ * 2]],
                        i + hdr.n_src)
          [] OTHER ->
               DeiReturn([dec EXCEPT !.qpd_enc_state.dec_huff_state = hdr.hs],
                         -1)

\* case DEI_WONR_READ_NAME_PLAIN; alloced_len is 2 * str_len here
DeiWonrReadNamePlain(dec, buf, i) ==
    LET es == dec.qpd_enc_state
        size == Min(Len(buf) - i + 1, es.str_len - es.str_off)
        name == es.entry.name \o SubSeq(buf, i, i + size - 1)
    IN  DeiBreak([dec EXCEPT
                    !.qpd_enc_state.entry.name = name,
                    !.qpd_enc_state.str_off = @ + size,
                    !.qpd_enc_state.resume =
                        IF es.str_off + size = es.str_len
                        THEN "DEI_WONR_BEGIN_READ_VAL_LEN" ELSE @],
                 i + size)

\* case DEI_WONR_READ_VAL_LEN, entered from DEI_WONR_BEGIN_READ_VAL_LEN
\* when begin is TRUE
DeiWonrReadValLen(dec0, buf, i, begin) ==
    LET dec == IF begin
               THEN [dec0 EXCEPT
                        !.qpd_enc_state.is_huffman = HasBit(buf[i], 128),
                        !.qpd_enc_state.dec_int_state.resume = 0,
                        !.qpd_enc_state.resume = "DEI_WONR_READ_VAL_LEN"]
               ELSE dec0
        es == dec.qpd_enc_state
        di == Call("lsqpack_dec_int", <<buf, i, 7, es.dec_int_state>>)
    IN  IF di.r # 0 THEN DeiIntFail(dec, di)
        ELSE DeiBreak(
               [dec EXCEPT
                  !.qpd_enc_state =
                      [es EXCEPT
                          !.dec_int_state = di.st,
                          !.str_len = di.val,
                          !.nread = 0,
                          !.str_off = 0,
                          !.dec_huff_state =
                              IF es.is_huffman
                              THEN [es.dec_huff_state EXCEPT !.resume = 0]
                              ELSE es.dec_huff_state,
                          !.resume =
                              IF es.is_huffman
                              THEN "DEI_WONR_READ_VALUE_HUFFMAN"
                              ELSE "DEI_WONR_READ_VALUE_PLAIN"]],
               di.pos)

\* the end of an insertion without name reference
DeiWonrPush(dec, val) ==
    [Call("lsqpack_dec_push_entry", <<dec, [name |-> dec.qpd_enc_state.entry.name,
                                  val |-> val]>>)
        EXCEPT !.qpd_enc_state = EncState0]

\* case DEI_WONR_READ_VALUE_HUFFMAN
DeiWonrReadValueHuffman(dec, buf, i) ==
    LET es == dec.qpd_enc_state
        hdr == HuffStep(buf, i, es.str_len - es.nread,
                        es.alloced_len - Len(es.entry.name) - es.str_off,
                        es.dec_huff_state)
        more == [es EXCEPT !.dec_huff_state = hdr.hs,
                           !.entry.val = @ \o hdr.out,
                           !.nread = @ + hdr.n_src,
                           !.str_off = @ + hdr.n_dst]
    IN  CASE hdr.status = "OK" ->
               DeiBreak(DeiWonrPush(dec, es.entry.val \o hdr.out),
                        i + hdr.n_src)
          [] hdr.status = "END_SRC" ->
               DeiBreak([dec EXCEPT !.qpd_enc_state = more], i + hdr.n_src)
          [] hdr.status = "END_DST" ->
               DeiBreak([dec EXCEPT !.qpd_enc_state =
                            [more EXCEPT !.alloced_len = @ * 2]],
                        i + hdr.n_src)
          [] OTHER ->
               DeiReturn([dec EXCEPT !.qpd_enc_state.dec_huff_state = hdr.hs],
                         -1)

\* case DEI_WONR_READ_VALUE_PLAIN
DeiWonrReadValuePlain(dec, buf, i) ==
    LET es == dec.qpd_enc_state
        need == Len(es.entry.name) + es.str_len
        size == Min(Len(buf) - i + 1, es.str_len - es.str_off)
        val == es.entry.val \o SubSeq(buf, i, i + size - 1)
    IN  IF es.str_off + size = es.str_len
        THEN DeiBreak(DeiWonrPush(dec, val), i + size)
        ELSE DeiBreak([dec EXCEPT
                         !.qpd_enc_state.alloced_len =
                             IF @ < need THEN need ELSE @,
                         !.qpd_enc_state.entry.val = val,
                         !.qpd_enc_state.str_off = @ + size],
                      i + size)

\* case DEI_DUP_READ_IDX
DeiDupReadIdx(dec, buf, i, prefix_bits) ==
    LET es == dec.qpd_enc_state
        di == Call("lsqpack_dec_int", <<buf, i, prefix_bits, es.dec_int_state>>)
        entry == Call("qdec_get_table_entry_rel", <<dec, di.val>>)
    IN  IF di.r # 0 THEN DeiIntFail(dec, di)
        ELSE IF entry = NULL
        THEN DeiReturn([dec EXCEPT !.qpd_enc_state.dec_int_state = di.st], -1)
        ELSE DeiBreak(
               [Call("lsqpack_dec_push_entry", <<dec, [name |-> dec.mem[entry].name,
                                             val |-> dec.mem[entry].val]>>)
                   EXCEPT !.qpd_enc_state = EncState0],
               di.pos)

\* case DEI_SIZE_UPD_READ_IDX
DeiSizeUpdReadIdx(dec, buf, i, prefix_bits) ==
    LET es == dec.qpd_enc_state
        di == Call("lsqpack_dec_int", <<buf, i, prefix_bits, es.dec_int_state>>)
    IN  IF di.r # 0 THEN DeiIntFail(dec, di)
        ELSE IF di.val <= dec.qpd_max_capacity
        THEN DeiBreak([qdec_update_max_capacity(dec, di.val)
                          EXCEPT !.qpd_enc_state = EncState0],
                      di.pos)
        ELSE DeiReturn([dec EXCEPT !.qpd_enc_state.dec_int_state = di.st], -1)

\* case DEI_NEXT_INST: the instruction is told from the first byte
DeiNextInst(dec, buf, i) ==
    LET b == buf[i]
        start(resume) ==
            [dec EXCEPT !.qpd_enc_state.dec_int_state.resume = 0,
                        !.qpd_enc_state.resume = resume]
    IN  IF HasBit(b, 128)
        THEN DeiWinrReadNameIdx(
                 [start("DEI_WINR_READ_NAME_IDX") EXCEPT
                     !.qpd_enc_state.is_static = HasBit(b, 64),
                     !.qpd_enc_state.reffed_entry = NULL,
                     !.qpd_enc_state.built = FALSE],
                 buf, i, 6)
        ELSE IF HasBit(b, 64)
        THEN DeiWonrReadNameLen(
                 [start("DEI_WONR_READ_NAME_LEN") EXCEPT
                     !.qpd_enc_state.is_huffman = HasBit(b, 32),
                     !.qpd_enc_state.built = FALSE],
                 buf, i, 5)
        ELSE IF HasBit(b, 32)
        THEN DeiSizeUpdReadIdx(start("DEI_SIZE_UPD_READ_IDX"), buf, i, 5)
        ELSE DeiDupReadIdx(start("DEI_DUP_READ_IDX"), buf, i, 5)

\* The resume paths of the integer reads pass no usable prefix_bits
\* (the local is -1): lsqpack_dec_int does not read it when resuming.
DeiCase(dec, buf, i) ==
    LET resume == dec.qpd_enc_state.resume
    IN  CASE resume = "DEI_NEXT_INST" -> DeiNextInst(dec, buf, i)
          [] resume = "DEI_WINR_READ_NAME_IDX" ->
               DeiWinrReadNameIdx(dec, buf, i, 6)
          [] resume = "DEI_WINR_BEGIN_READ_VAL_LEN" ->
               DeiWinrReadValLen(dec, buf, i, TRUE)
          [] resume = "DEI_WINR_READ_VAL_LEN" ->
               DeiWinrReadValLen(dec, buf, i, FALSE)
          [] resume = "DEI_WINR_READ_VALUE_HUFFMAN" ->
               DeiWinrReadValueHuffman(dec, buf, i)
          [] resume = "DEI_WINR_READ_VALUE_PLAIN" ->
               DeiWinrReadValuePlain(dec, buf, i)
          [] resume = "DEI_WONR_READ_NAME_LEN" ->
               DeiWonrReadNameLen(dec, buf, i, 5)
          [] resume = "DEI_WONR_READ_NAME_HUFFMAN" ->
               DeiWonrReadNameHuffman(dec, buf, i)
          [] resume = "DEI_WONR_READ_NAME_PLAIN" ->
               DeiWonrReadNamePlain(dec, buf, i)
          [] resume = "DEI_WONR_BEGIN_READ_VAL_LEN" ->
               DeiWonrReadValLen(dec, buf, i, TRUE)
          [] resume = "DEI_WONR_READ_VAL_LEN" ->
               DeiWonrReadValLen(dec, buf, i, FALSE)
          [] resume = "DEI_WONR_READ_VALUE_HUFFMAN" ->
               DeiWonrReadValueHuffman(dec, buf, i)
          [] resume = "DEI_WONR_READ_VALUE_PLAIN" ->
               DeiWonrReadValuePlain(dec, buf, i)
          [] resume = "DEI_DUP_READ_IDX" -> DeiDupReadIdx(dec, buf, i, 5)
          [] OTHER -> DeiSizeUpdReadIdx(dec, buf, i, 5)

RECURSIVE DeiLoop(_, _, _)
\* while (buf < end) switch (dec->qpd_enc_state.resume) ...
DeiLoop(dec, buf, i) ==
    IF i > Len(buf) THEN [r |-> 0, dec |-> dec]
    ELSE LET s == Call("DeiCase", <<dec, buf, i>>)
         IN  IF s.ret THEN [r |-> s.r, dec |-> s.dec]
             ELSE DeiLoop(s.dec, buf, s.i)

\* lsqpack_dec_enc_in(dec, buf, buf_sz)
lsqpack_dec_enc_in(dec, buf) == DeiLoop(dec, buf, 1)

----------------------------------------------------------------------------
(* Decoder: header blocks *)

\* hbrc_parse_ctx_u.  The members of the unions all begin with their
\* dec_int_state, so the model keeps one, and one dec_huff_state; str is
\* the buffer LFINR.value, LFPBNR.value or LFONR.name (name and value),
\* name_ref the static index or the address of the named entry.  When a
\* field line is complete the fields are set back to these values, but
\* for dec_int_state, which LFPBNR reads before it writes it.
ParseCtx0 ==
    [dec_int_state |-> DecIntState0, dec_huff_state |-> HuffState0,
     sign |-> 0, is_static |-> FALSE, is_never |-> FALSE,
     is_huffman |-> FALSE, name_ref |-> NULL, str |-> <<>>, nalloc |-> 0,
     val_len |-> 0, val_off |-> 0, nread |-> 0, name_len |-> 0,
     str_len |-> 0, str_off |-> 0]

\* struct header_block_read_ctx as lsqpack_dec_header_in sets it up.
\* hbrc_header_set is the list of headers built so far, each a record
\* [qh_name, qh_value, qh_never, hi_entry, into]: hi_entry is the entry
\* whose reference the header owns (or NULL), into the entry whose
\* buffer qh_name points into (or NULL).
ReadCtx0(dec, stream, header_size) ==
    [hbrc_stream |-> stream,
     hbrc_size |-> header_size,
     hbrc_largest_ref |-> 0,
     hbrc_base_index |-> 0,
     hbrc_header_set |-> <<>>,
     hbrc_parse |-> "parse_header_prefix",
     have_largest_ref |-> FALSE,
     blocked |-> FALSE,
     hbrc_lr_min_sz |-> Call("lsqpack_val2len", <<dec.qpd_del_count, 8>>),
     hbrc_lr_nread |-> 0,
     state |-> "PREFIX_STATE_BEGIN_READING_LARGEST_REF",
     u |-> ParseCtx0]

Hint(name, value, never, hi_entry, into) ==
    [qh_name |-> name, qh_value |-> value, qh_never |-> never,
     hi_entry |-> hi_entry, into |-> into]

\* The hset_add_* functions, allocate_hint succeeding: ok, and the
\* decoder and context with the header added.
HsetRet(ok, dec, ctx) == [ok |-> ok, dec |-> dec, ctx |-> ctx]

HsetAppend(ctx, hint) ==
    [ctx EXCEPT !.hbrc_header_set = Append(@, hint)]

hset_add_static_entry(dec, ctx, idx) ==
    IF idx > 0 /\ idx <= QPACK_STATIC_TABLE_SIZE
    THEN HsetRet(TRUE, dec,
                 HsetAppend(ctx, Hint(static_table[idx].name,
                                      static_table[idx].val, FALSE, NULL,
                                      NULL)))
    ELSE HsetRet(FALSE, dec, ctx)

hset_add_dynamic_entry(dec, ctx, idx) ==
    LET entry == Call("qdec_get_table_entry_abs", <<dec, idx>>)
    IN  IF entry # NULL
        THEN HsetRet(TRUE, DecRef1(dec, entry),
                     HsetAppend(ctx, Hint(dec.mem[entry].name,
                                          dec.mem[entry].val, FALSE, entry,
                                          entry)))
        ELSE HsetRet(FALSE, dec, ctx)

hset_add_static_nameref_entry(dec, ctx, idx, value, is_never) ==
    HsetRet(TRUE, dec,
            HsetAppend(ctx, Hint(static_table[idx].name, value, is_never,
                                 NULL, NULL)))

\* the reference taken here is owned by no header: hi_entry stays NULL
hset_add_dynamic_nameref_entry(dec, ctx, entry, value, is_never) ==
    HsetRet(TRUE, DecRef1(dec, entry),
            HsetAppend(ctx, Hint(dec.mem[entry].name, value, is_never,
                                 NULL, entry)))

hset_add_literal_entry(dec, ctx, nameandval, name_len, val_len, is_never) ==
    HsetRet(TRUE, dec,
            HsetAppend(ctx, Hint(SubSeq(nameandval, 1, name_len),
                                 SubSeq(nameandval, name_len + 1,
                                        name_len + val_len),
                                 is_never, NULL, NULL)))

\* the result of one pass through the switch of a parser: go on with the
\* loop at buf + i ("break"), or return st
PhBreak(dec, ctx, i) ==
    [ret |-> FALSE, st |-> "", dec |-> dec, ctx |-> ctx, i |-> i]
PhReturn(dec, ctx, st) ==
    [ret |-> TRUE, st |-> st, dec |-> dec, ctx |-> ctx, i |-> 0]

\* a field line is complete
CtxNext(ctx) ==
    [ctx EXCEPT !.state = "DATA_STATE_NEXT_INSTRUCTION",
                !.u = [ParseCtx0 EXCEPT
                          !.dec_int_state = ctx.u.dec_int_state]]

\* r = lsqpack_dec_int(...) != 0 in a parser: RHS_NEED when out of input
PhIntFail(dec, ctx, di) ==
    PhReturn(dec, [ctx EXCEPT !.u.dec_int_state = di.st],
             IF di.r = -1 THEN "RHS_NEED" ELSE "RHS_ERROR")

\* case DATA_STATE_READ_IHF_IDX
PhdReadIhfIdx(dec, ctx, buf, i, prefix_bits) ==
    LET di == Call("lsqpack_dec_int", <<buf, i, prefix_bits, ctx.u.dec_int_state>>)
        c1 == [ctx EXCEPT !.u.dec_int_state = di.st]
        a == IF ctx.u.is_static THEN Call("hset_add_static_entry", <<dec, c1, di.val>>)
             ELSE Call("hset_add_dynamic_entry", <<dec, c1, di.val>>)
    IN  IF di.r # 0 THEN PhIntFail(dec, ctx, di)
        ELSE IF a.ok THEN PhBreak(a.dec, CtxNext(a.ctx), di.pos)
        ELSE PhReturn(dec, c1, "RHS_ERROR")

\* case DATA_STATE_READ_IPBI_IDX
PhdReadIpbiIdx(dec, ctx, buf, i, prefix_bits) ==
    LET di == Call("lsqpack_dec_int", <<buf, i, prefix_bits, ctx.u.dec_int_state>>)
        c1 == [ctx EXCEPT !.u.dec_int_state = di.st]
        a == Call("hset_add_dynamic_entry", <<dec, c1, di.val + ctx.hbrc_base_index>>)
    IN  IF di.r # 0 THEN PhIntFail(dec, ctx, di)
        ELSE IF a.ok THEN PhBreak(a.dec, CtxNext(a.ctx), di.pos)
        ELSE PhReturn(dec, c1, "RHS_ERROR")

\* case DATA_STATE_READ_LFINR_IDX
PhdReadLfinrIdx(dec, ctx, buf, i, prefix_bits) ==
    LET di == Call("lsqpack_dec_int", <<buf, i, prefix_bits, ctx.u.dec_int_state>>)
        c1 == [ctx EXCEPT !.u.dec_int_state = di.st]
        dyn_entry == Call("qdec_get_table_entry_abs", <<dec,
                                              ctx.hbrc_base_index - di.val>>)
        go(ref) == [c1 EXCEPT
                       !.u.name_ref = ref,
                       !.state = "DATA_STATE_BEGIN_READ_LFINR_VAL_LEN"]
    IN  IF di.r # 0 THEN PhIntFail(dec, ctx, di)
        ELSE IF ctx.u.is_static
        THEN IF di.val > 0 /\ di.val <= QPACK_STATIC_TABLE_SIZE
             THEN PhBreak(dec, go(di.val), di.pos)
             ELSE PhReturn(dec, c1, "RHS_ERROR")
        ELSE IF dyn_entry # NULL
        THEN PhBreak(DecRef1(dec, dyn_entry), go(dyn_entry), di.pos)
        ELSE PhReturn(dec, c1, "RHS_ERROR")

\* case DATA_STATE_READ_LFPBNR_IDX
PhdReadLfpbnrIdx(dec, ctx, buf, i, prefix_bits) ==
    LET di == Call("lsqpack_dec_int", <<buf, i, prefix_bits, ctx.u.dec_int_state>>)
        c1 == [ctx EXCEPT !.u.dec_int_state = di.st]
        value == di.val + ctx.hbrc_base_index + 1
        reffed_entry == Call("qdec_get_table_entry_abs", <<dec, value>>)
    IN  IF di.r # 0 THEN PhIntFail(dec, ctx, di)
        ELSE IF value > ctx.hbrc_largest_ref
        THEN PhReturn(dec, c1, "RHS_ERROR")
        ELSE IF reffed_entry # NULL
        THEN PhBreak(DecRef1(dec, reffed_entry),
                     [c1 EXCEPT
                         !.u.name_ref = reffed_entry,
                         !.state = "DATA_STATE_BEGIN_READ_LFPBNR_VAL_LEN"],
                     di.pos)
        ELSE PhReturn(dec, c1, "RHS_ERROR")

\* case DATA_STATE_READ_LFINR_VAL_LEN and, with the other state names,
\* case DATA_STATE_READ_LFPBNR_VAL_LEN; begin is TRUE when entered from
\* the BEGIN state
PhdReadValLen(dec, ctx0, buf, i, begin, read_state, huffman_state, plain_state) ==
    LET ctx == IF begin
               THEN [ctx0 EXCEPT !.u.is_huffman = HasBit(buf[i], 128),
                                 !.u.dec_int_state.resume = 0,
                                 !.state = read_state]
               ELSE ctx0
        di == Call("lsqpack_dec_int", <<buf, i, 7, ctx.u.dec_int_state>>)
    IN  IF di.r # 0 THEN PhIntFail(dec, ctx, di)
        ELSE PhBreak(dec,
               [ctx EXCEPT
                  !.u.dec_int_state = di.st,
                  !.u.nalloc = IF ctx.u.is_huffman
                               THEN di.val + (di.val \div 2) ELSE di.val,
                  !.u.dec_huff_state.resume =
                      IF ctx.u.is_huffman THEN 0 ELSE @,
                  !.state = IF ctx.u.is_huffman THEN huffman_state
                            ELSE plain_state,
                  !.u.val_len = di.val,
                  !.u.nread = 0,
                  !.u.val_off = 0,
                  !.u.str = <<>>],
               di.pos)

\* the value of a literal with name reference is complete: static tells
\* a static name (LFINR.is_static), otherwise name_ref is an entry
PhdNamerefDone(dec, ctx, value, static) ==
    LET a == IF static
             THEN Call("hset_add_static_nameref_entry", <<dec, ctx, ctx.u.name_ref,
                                                value, ctx.u.is_never>>)
             ELSE Call("hset_add_dynamic_nameref_entry", <<dec, ctx, ctx.u.name_ref,
                                                 value, ctx.u.is_never>>)
    IN  IF static THEN [dec |-> a.dec, ctx |-> CtxNext(a.ctx)]
        ELSE [dec |-> qdec_decref_entry(a.dec, ctx.u.name_ref),
              ctx |-> CtxNext(a.ctx)]

\* case DATA_STATE_LFINR_READ_VAL_HUFFMAN and, with static FALSE,
\* case DATA_STATE_LFPBNR_READ_VAL_HUFFMAN
PhdReadValHuffman(dec, ctx, buf, i, static) ==
    LET u == ctx.u
        hdr == HuffStep(buf, i, u.val_len - u.nread, u.nalloc - u.val_off,
                        u.dec_huff_state)
        more == [ctx EXCEPT !.u.dec_huff_state = hdr.hs,
                            !.u.str = @ \o hdr.out,
                            !.u.nread = @ + hdr.n_src,
                            !.u.val_off = @ + hdr.n_dst]
        done == PhdNamerefDone(dec, ctx, u.str \o hdr.out, static)
    IN  CASE hdr.status = "OK" -> PhBreak(done.dec, done.ctx, i + hdr.n_src)
          [] hdr.status = "END_SRC" -> PhBreak(dec, more, i + hdr.n_src)
          [] hdr.status = "END_DST" ->
               PhBreak(dec, [more EXCEPT !.u.nalloc = @ * 2], i + hdr.n_src)
          [] OTHER ->
               PhReturn(dec, [ctx EXCEPT !.u.dec_huff_state = hdr.hs],
                        "RHS_ERROR")

\* case DATA_STATE_LFINR_READ_VAL_PLAIN and, with static FALSE,
\* case DATA_STATE_LFPBNR_READ_VAL_PLAIN
PhdReadValPlain(dec, ctx, buf, i, static) ==
    LET u == ctx.u
        size == Min(Len(buf) - i + 1, u.val_len - u.val_off)
        value == u.str \o SubSeq(buf, i, i + size - 1)
        done == PhdNamerefDone(dec, ctx, value, static)
    IN  IF u.val_off + size = u.val_len
        THEN PhBreak(done.dec, done.ctx, i + size)
        ELSE PhBreak(dec, [ctx EXCEPT !.u.str = value,
                                      !.u.val_off = @ + size],
                     i + size)

\* case DATA_STATE_READ_LFONR_NAME_LEN
PhdReadLfonrNameLen(dec, ctx, buf, i, prefix_bits) ==
    LET di == Call("lsqpack_dec_int", <<buf, i, prefix_bits, ctx.u.dec_int_state>>)
    IN  IF di.r # 0 THEN PhIntFail(dec, ctx, di)
        ELSE PhBreak(dec,
               [ctx EXCEPT
                  !.u.dec_int_state = di.st,
                  !.u.nread = 0,
                  !.u.str_off = 0,
                  !.u.str_len = di.val,
                  !.u.nalloc = di.val * 2,
                  !.u.dec_huff_state.resume =
                      IF ctx.u.is_huffman THEN 0 ELSE @,
                  !.state = IF ctx.u.is_huffman
                            THEN "DATA_STATE_READ_LFONR_NAME_HUFFMAN"
                            ELSE "DATA_STATE_READ_LFONR_NAME_PLAIN",
                  !.u.str = <<>>],
               di.pos)

\* case DATA_STATE_READ_LFONR_NAME_HUFFMAN
PhdReadLfonrNameHuffman(dec, ctx, buf, i) ==
    LET u == ctx.u
        hdr == HuffStep(buf, i, u.str_len - u.nread, u.nalloc - u.str_off,
                        u.dec_huff_state)
        more == [ctx EXCEPT !.u.dec_huff_state = hdr.hs,
                            !.u.str = @ \o hdr.out,
                            !.u.nread = @ + hdr.n_src,
                            !.u.str_off = @ + hdr.n_dst]
    IN  CASE hdr.status = "OK" ->
               PhBreak(dec,
                       [ctx EXCEPT
                           !.u.dec_huff_state = hdr.hs,
                           !.u.str = @ \o hdr.out,
                           !.u.name_len = u.str_off + hdr.n_dst,
                           !.state = "DATA_STATE_BEGIN_READ_LFONR_VAL_LEN"],
                       i + hdr.n_src)
          [] hdr.status = "END_SRC" -> PhBreak(dec, more, i + hdr.n_src)
          [] hdr.status = "END_DST" ->
               PhBreak(dec, [more EXCEPT !.u.nalloc = @ * 2], i + hdr.n_src)
          [] OTHER ->
               PhReturn(dec, [ctx EXCEPT !.u.dec_huff_state = hdr.hs],
                        "RHS_ERROR")

\* case DATA_STATE_READ_LFONR_VAL_LEN, entered from
\* DATA_STATE_BEGIN_READ_LFONR_VAL_LEN when begin is TRUE
PhdReadLfonrValLen(dec, ctx0, buf, i, begin) ==
    LET ctx == IF begin
               THEN [ctx0 EXCEPT !.u.is_huffman = HasBit(buf[i], 128),
                                 !.u.dec_int_state.resume = 0,
                                 !.state = "DATA_STATE_READ_LFONR_VAL_LEN"]
               ELSE ctx0
        di == Call("lsqpack_dec_int", <<buf, i, 7, ctx.u.dec_int_state>>)
    IN  IF di.r # 0 THEN PhIntFail(dec, ctx, di)
        ELSE PhBreak(dec,
               [ctx EXCEPT
                  !.u.dec_int_state = di.st,
                  !.u.dec_huff_state.resume =
                      IF ctx.u.is_huffman THEN 0 ELSE @,
                  !.state = IF ctx.u.is_huffman
                            THEN "DATA_STATE_READ_LFONR_VAL_HUFFMAN"
                            ELSE "DATA_STATE_READ_LFONR_VAL_PLAIN",
                  !.u.nread = 0,
                  !.u.str_off = 0,
                  !.u.str_len = di.val],
               di.pos)

\* the value of a literal without name reference is complete
PhdLiteralDone(dec, ctx, nameandval) ==
    LET a == Call("hset_add_literal_entry", <<dec, ctx, nameandval, ctx.u.name_len,
                                    Len(nameandval) - ctx.u.name_len,
                                    ctx.u.is_never>>)
    IN  [dec |-> a.dec, ctx |-> CtxNext(a.ctx)]

\* case DATA_STATE_READ_LFONR_VAL_HUFFMAN
PhdReadLfonrValHuffman(dec, ctx, buf, i) ==
    LET u == ctx.u
        hdr == HuffStep(buf, i, u.str_len - u.nread,
                        u.nalloc - u.name_len - u.str_off, u.dec_huff_state)
        more == [ctx EXCEPT !.u.dec_huff_state = hdr.hs,
                            !.u.str = @ \o hdr.out,
                            !.u.nread = @ + hdr.n_src,
                            !.u.str_off = @ + hdr.n_dst]
        done == PhdLiteralDone(dec, ctx, u.str \o hdr.out)
    IN  CASE hdr.status = "OK" -> PhBreak(done.dec, done.ctx, i + hdr.n_src)
          [] hdr.status = "END_SRC" -> PhBreak(dec, more, i + hdr.n_src)
          [] hdr.status = "END_DST" ->
               PhBreak(dec, [more EXCEPT !.u.nalloc = @ * 2], i + hdr.n_src)
          [] OTHER ->
               PhReturn(dec, [ctx EXCEPT !.u.dec_huff_state = hdr.hs],
                        "RHS_ERROR")

\* case DATA_STATE_READ_LFONR_VAL_PLAIN
PhdReadLfonrValPlain(dec, ctx, buf, i) ==
    LET u == ctx.u
        need == u.name_len + u.str_len
        size == Min(Len(buf) - i + 1, u.str_len - u.str_off)
        nameandval == u.str \o SubSeq(buf, i, i + size - 1)
        done == PhdLiteralDone(dec, ctx, nameandval)
    IN  IF u.str_off + size = u.str_len
        THEN PhBreak(done.dec, done.ctx, i + size)
        ELSE PhBreak(dec, [ctx EXCEPT
                              !.u.nalloc = IF @ < need THEN need ELSE @,
                              !.u.str = nameandval,
                              !.u.str_off = @ + size],
                     i + size)

\* case DATA_STATE_NEXT_INSTRUCTION: the representation is told from the
\* first byte.  LFPBNR.dec_int_state.resume is the one that is not reset.
PhdNextInstruction(dec, ctx, buf, i) ==
    LET b == buf[i]
        start(state) == [ctx EXCEPT !.u.dec_int_state.resume = 0,
                                    !.state = state]
    IN  IF HasBit(b, 128)
        THEN PhdReadIhfIdx(dec,
                 [start("DATA_STATE_READ_IHF_IDX") EXCEPT
                     !.u.is_static = HasBit(b, 64)],
                 buf, i, 6)
        ELSE IF HasBit(b, 64)
        THEN PhdReadLfinrIdx(dec,
                 [start("DATA_STATE_READ_LFINR_IDX") EXCEPT
                     !.u.is_never = HasBit(b, 32),
                     !.u.is_static = HasBit(b, 16),
                     !.u.str = <<>>,
                     !.u.name_ref = NULL],
                 buf, i, 4)
        ELSE IF HasBit(b, 32)
        THEN PhdReadLfonrNameLen(dec,
                 [start("DATA_STATE_READ_LFONR_NAME_LEN") EXCEPT
                     !.u.is_never = HasBit(b, 16),
                     !.u.is_huffman = HasBit(b, 4),
                     !.u.str = <<>>],
                 buf, i, 3)
        ELSE IF HasBit(b, 16)
        THEN PhdReadIpbiIdx(dec, start("DATA_STATE_READ_IPBI_IDX"),
                            buf, i, 4)
        ELSE PhdReadLfpbnrIdx(dec,
                 [ctx EXCEPT !.state = "DATA_STATE_READ_LFPBNR_IDX",
                             !.u.is_never = HasBit(b, 8),
                             !.u.str = <<>>,
                             !.u.name_ref = NULL],
                 buf, i, 3)

\* switch (read_ctx->hbrc_parse_ctx_u.data.state).  There is no case
\* DATA_STATE_READ_LFONR_NAME_PLAIN: that state takes the default branch,
\* assert(0).  The resume paths of the integer reads pass no usable
\* prefix_bits (the local is -1): lsqpack_dec_int does not read it then.
PhdCase(dec, ctx, buf, i) ==
    LET s == ctx.state
    IN  CASE s = "DATA_STATE_NEXT_INSTRUCTION" ->
               PhdNextInstruction(dec, ctx, buf, i)
          [] s = "DATA_STATE_READ_IHF_IDX" ->
               PhdReadIhfIdx(dec, ctx, buf, i, 6)
          [] s = "DATA_STATE_READ_LFINR_IDX" ->
               PhdReadLfinrIdx(dec, ctx, buf, i, 4)
          [] s = "DATA_STATE_BEGIN_READ_LFINR_VAL_LEN" ->
               PhdReadValLen(dec, ctx, buf, i, TRUE,
                             "DATA_STATE_READ_LFINR_VAL_LEN",
                             "DATA_STATE_LFINR_READ_VAL_HUFFMAN",
                             "DATA_STATE_LFINR_READ_VAL_PLAIN")
          [] s = "DATA_STATE_READ_LFINR_VAL_LEN" ->
               PhdReadValLen(dec, ctx, buf, i, FALSE,
                             "DATA_STATE_READ_LFINR_VAL_LEN",
                             "DATA_STATE_LFINR_READ_VAL_HUFFMAN",
                             "DATA_STATE_LFINR_READ_VAL_PLAIN")
          [] s = "DATA_STATE_LFINR_READ_VAL_HUFFMAN" ->
               PhdReadValHuffman(dec, ctx, buf, i, ctx.u.is_static)
          [] s = "DATA_STATE_LFINR_READ_VAL_PLAIN" ->
               PhdReadValPlain(dec, ctx, buf, i, ctx.u.is_static)
          [] s = "DATA_STATE_READ_LFONR_NAME_LEN" ->
               PhdReadLfonrNameLen(dec, ctx, buf, i, 3)
          [] s = "DATA_STATE_READ_LFONR_NAME_HUFFMAN" ->
               PhdReadLfonrNameHuffman(dec, ctx, buf, i)
          [] s = "DATA_STATE_BEGIN_READ_LFONR_VAL_LEN" ->
               PhdReadLfonrValLen(dec, ctx, buf, i, TRUE)
          [] s = "DATA_STATE_READ_LFONR_VAL_LEN" ->
               PhdReadLfonrValLen(dec, ctx, buf, i, FALSE)
          [] s = "DATA_STATE_READ_LFONR_VAL_HUFFMAN" ->
               PhdReadLfonrValHuffman(dec, ctx, buf, i)
          [] s = "DATA_STATE_READ_LFONR_VAL_PLAIN" ->
               PhdReadLfonrValPlain(dec, ctx, buf, i)
          [] s = "DATA_STATE_READ_LFPBNR_IDX" ->
               PhdReadLfpbnrIdx(dec, ctx, buf, i, 3)
          [] s = "DATA_STATE_BEGIN_READ_LFPBNR_VAL_LEN" ->
               PhdReadValLen(dec, ctx, buf, i, TRUE,
                             "DATA_STATE_READ_LFPBNR_VAL_LEN",
                             "DATA_STATE_LFPBNR_READ_VAL_HUFFMAN",
                             "DATA_STATE_LFPBNR_READ_VAL_PLAIN")
          [] s = "DATA_STATE_READ_LFPBNR_VAL_LEN" ->
               PhdReadValLen(dec, ctx, buf, i, FALSE,
                             "DATA_STATE_READ_LFPBNR_VAL_LEN",
                             "DATA_STATE_LFPBNR_READ_VAL_HUFFMAN",
                             "DATA_STATE_LFPBNR_READ_VAL_PLAIN")
          [] s = "DATA_STATE_LFPBNR_READ_VAL_HUFFMAN" ->
               PhdReadValHuffman(dec, ctx, buf, i, FALSE)
          [] s = "DATA_STATE_LFPBNR_READ_VAL_PLAIN" ->
               PhdReadValPlain(dec, ctx, buf, i, FALSE)
          [] s = "DATA_STATE_READ_IPBI_IDX" ->
               PhdReadIpbiIdx(dec, ctx, buf, i, 4)
          [] OTHER -> PhReturn(dec, ctx, "ABORT")

RECURSIVE parse_header_data(_, _, _, _)
\* parse_header_data(dec, read_ctx, buf + i - 1, bufsz - i + 1): st is
\* RHS_DONE, RHS_BLOCKED, RHS_NEED, RHS_ERROR, or ABORT for assert(0)
parse_header_data(dec, ctx, buf, i) ==
    IF i > Len(buf)
    THEN [st |-> IF ctx.hbrc_size > 0 THEN "RHS_NEED"
                 ELSE IF ctx.state = "DATA_STATE_NEXT_INSTRUCTION"
                 THEN "RHS_DONE" ELSE "RHS_ERROR",
          dec |-> dec, ctx |-> ctx]
    ELSE LET s == Call("PhdCase", <<dec, ctx, buf, i>>)
         IN  IF s.ret THEN [st |-> s.st, dec |-> s.dec, ctx |-> s.ctx]
             ELSE parse_header_data(s.dec, s.ctx, buf, s.i)

\* parse_header_prefix, case PREFIX_STATE_READ_LARGEST_REF, entered from
\* PREFIX_STATE_BEGIN_READING_LARGEST_REF when begin is TRUE.  On -1 the
\* code adds buf - end, which is 0, to hbrc_lr_nread.
PhpReadLargestRef(dec, ctx0, buf, i, begin) ==
    LET ctx == IF begin
               THEN [ctx0 EXCEPT !.u.dec_int_state.resume = 0,
                                 !.state = "PREFIX_STATE_READ_LARGEST_REF"]
               ELSE ctx0
        di == Call("lsqpack_dec_int", <<buf, i, 8, ctx.u.dec_int_state>>)
        c1 == [ctx EXCEPT !.u.dec_int_state = di.st]
        c2 == [c1 EXCEPT !.have_largest_ref = TRUE,
                         !.hbrc_largest_ref = di.val,
                         !.state = "PREFIX_STATE_BEGIN_READING_BASE_IDX"]
    IN  IF di.r = 0
        THEN IF di.val > dec.qpd_ins_count
             THEN PhReturn(dec, c2, "RHS_BLOCKED")
             ELSE PhBreak(dec, c2, di.pos)
        ELSE IF di.r = -1
        THEN PhReturn(dec, c1,
                      IF c1.hbrc_lr_nread < LSQPACK_UINT64_ENC_SZ
                      THEN "RHS_NEED" ELSE "RHS_ERROR")
        ELSE PhReturn(dec, c1, "RHS_ERROR")

\* case PREFIX_STATE_READ_DELTA_BASE_IDX, entered from
\* PREFIX_STATE_BEGIN_READING_BASE_IDX when begin is TRUE; the rest of
\* the buffer goes to parse_header_data
PhpReadDeltaBaseIdx(dec, ctx0, buf, i, begin) ==
    LET ctx == IF begin
               THEN [ctx0 EXCEPT !.u.sign = IF HasBit(buf[i], 128) THEN 1
                                            ELSE 0,
                                 !.u.dec_int_state.resume = 0,
                                 !.state = "PREFIX_STATE_READ_DELTA_BASE_IDX"]
               ELSE ctx0
        di == Call("lsqpack_dec_int", <<buf, i, 7, ctx.u.dec_int_state>>)
        c2 == [ctx EXCEPT
                  !.u = [ParseCtx0 EXCEPT !.dec_int_state = di.st],
                  !.hbrc_base_index =
                      IF ctx.u.sign = 1 THEN ctx.hbrc_largest_ref - di.val
                      ELSE ctx.hbrc_largest_ref + di.val,
                  !.hbrc_parse = "parse_header_data",
                  !.state = "DATA_STATE_NEXT_INSTRUCTION"]
        pd == Call("parse_header_data", <<dec, c2, buf, di.pos>>)
    IN  IF di.r = 0
        THEN IF di.pos <= Len(buf) THEN PhReturn(pd.dec, pd.ctx, pd.st)
             ELSE PhReturn(dec, c2, "RHS_NEED")
        ELSE PhIntFail(dec, ctx, di)

PhpCase(dec, ctx, buf, i) ==
    LET s == ctx.state
    IN  CASE s = "PREFIX_STATE_BEGIN_READING_LARGEST_REF" ->
               PhpReadLargestRef(dec, ctx, buf, i, TRUE)
          [] s = "PREFIX_STATE_READ_LARGEST_REF" ->
               PhpReadLargestRef(dec, ctx, buf, i, FALSE)
          [] s = "PREFIX_STATE_BEGIN_READING_BASE_IDX" ->
               PhpReadDeltaBaseIdx(dec, ctx, buf, i, TRUE)
          [] s = "PREFIX_STATE_READ_DELTA_BASE_IDX" ->
               PhpReadDeltaBaseIdx(dec, ctx, buf, i, FALSE)
          [] OTHER -> PhReturn(dec, ctx, "ABORT")

RECURSIVE parse_header_prefix(_, _, _, _)
parse_header_prefix(dec, ctx, buf, i) ==
    IF i > Len(buf)
    THEN [st |-> IF ctx.hbrc_size > 0 THEN "RHS_NEED" ELSE "RHS_ERROR",
          dec |-> dec, ctx |-> ctx]
    ELSE LET s == Call("PhpCase", <<dec, ctx, buf, i>>)
         IN  IF s.ret THEN [st |-> s.st, dec |-> s.dec, ctx |-> s.ctx]
             ELSE parse_header_prefix(s.dec, s.ctx, buf, s.i)

max_to_read(read_ctx) ==
    IF read_ctx.have_largest_ref THEN read_ctx.hbrc_size
    ELSE Min(IF read_ctx.hbrc_lr_min_sz > read_ctx.hbrc_lr_nread
             THEN read_ctx.hbrc_lr_min_sz - read_ctx.hbrc_lr_nread
             ELSE 1,
             read_ctx.hbrc_size)

\* dec->qpd_read_header_block(stream, &buf, n_to_read): the stream has
\* the bytes data at hand and gives out at most chunk of them in one call
ReadHeaderBlock(data, chunk, n_to_read) == Min(Min(n_to_read, Len(data)), chunk)

RECURSIVE qdec_read_header(_, _, _, _)
\* qdec_read_header: st, the decoder and the context, and rest, the bytes
\* of data that the callback has not given out
qdec_read_header(dec, read_ctx, data, chunk) ==
    IF read_ctx.hbrc_size = 0
    THEN [st |-> "RHS_DONE", dec |-> dec, ctx |-> read_ctx, rest |-> data]
    ELSE LET buf_sz == ReadHeaderBlock(data, chunk, Call("max_to_read", <<read_ctx>>))
             buf == SubSeq(data, 1, buf_sz)
             rest == SubSeq(data, buf_sz + 1, Len(data))
             c1 == [read_ctx EXCEPT !.hbrc_size = @ - buf_sz]
             p == IF c1.hbrc_parse = "parse_header_prefix"
                  THEN Call("parse_header_prefix", <<dec, c1, buf, 1>>)
                  ELSE Call("parse_header_data", <<dec, c1, buf, 1>>)
         IN  IF buf_sz = 0
             THEN [st |-> "RHS_NEED", dec |-> dec, ctx |-> read_ctx,
                   rest |-> data]
             ELSE IF p.st = "RHS_NEED" /\ p.ctx.hbrc_size > 0
             THEN qdec_read_header(p.dec, p.ctx, rest, chunk)
             ELSE [st |-> IF p.st = "RHS_NEED" THEN "RHS_ERROR" ELSE p.st,
                   dec |-> p.dec, ctx |-> p.ctx, rest |-> rest]

\* destroy_header_block_read_ctx: TAILQ_REMOVE
destroy_header_block_read_ctx(dec, k) ==
    [dec EXCEPT !.qpd_hbrcs = SubSeq(@, 1, k - 1) \o SubSeq(@, k + 1, Len(@))]

\* stash_blocked_header without the test of mh_count against
\* qpd_max_risked_streams
stash_unlimited(dec, k) ==
    [r |-> 0,
     dec |-> [dec EXCEPT
                !.qpd_blocked_headers =
                    Call("mh_insert", <<@, dec.qpd_hbrcs[k].hbrc_stream,
                              dec.qpd_hbrcs[k].hbrc_largest_ref>>),
                !.qpd_hbrcs[k].blocked = TRUE]]

\* stash_blocked_header of the context at position k of qpd_hbrcs
stash_blocked_header(dec, k) ==
    IF Len(dec.qpd_blocked_headers) >= dec.qpd_max_risked_streams
    THEN [r |-> -1, dec |-> dec]
    ELSE [r |-> 0,
          dec |-> [dec EXCEPT
                     !.qpd_blocked_headers =
                         Call("mh_insert", <<@, dec.qpd_hbrcs[k].hbrc_stream,
                                   dec.qpd_hbrcs[k].hbrc_largest_ref>>),
                     !.qpd_hbrcs[k].blocked = TRUE]]

\* find_header_block_read_ctx: the position of the first context of the
\* stream in qpd_hbrcs, 0 for NULL
find_header_block_read_ctx(dec, stream) ==
    LET ks == {k \in 1..Len(dec.qpd_hbrcs) :
                  dec.qpd_hbrcs[k].hbrc_stream = stream}
    IN  IF ks = {} THEN 0 ELSE CHOOSE k \in ks : \A j \in ks : k <= j

DecCb(dec, cb) == [dec EXCEPT !.cb = Append(@, cb)]

\* lsqpack_dec_header_read: r is 0 or -1, abort is TRUE when an assertion
\* fails; rest as in qdec_read_header
lsqpack_dec_header_read(dec, stream, data, chunk) ==
    LET k == Call("find_header_block_read_ctx", <<dec, stream>>)
        rh == Call("qdec_read_header", <<dec, dec.qpd_hbrcs[k], data, chunk>>)
        d1 == [rh.dec EXCEPT !.qpd_hbrcs[k] = rh.ctx]
        sb == Call("stash_blocked_header", <<d1, k>>)
    IN  IF k = 0 THEN [r |-> -1, abort |-> FALSE, dec |-> dec, rest |-> data]
        ELSE CASE rh.st = "RHS_DONE" ->
                    [r |-> 0, abort |-> FALSE,
                     dec |-> Call("destroy_header_block_read_ctx", <<
                                 DecCb(d1, <<"header_block_done", stream,
                                             rh.ctx.hbrc_header_set>>), k>>),
                     rest |-> rh.rest]
               [] rh.st = "RHS_NEED" ->
                    [r |-> 0, abort |-> FALSE, dec |-> DecCb(d1, <<"wantread", stream, 1>>),
                     rest |-> rh.rest]
               [] rh.st = "RHS_BLOCKED" ->
                    IF sb.r = 0
                    THEN [r |-> 0, abort |-> FALSE,
                          dec |-> DecCb(sb.dec, <<"wantread", stream, 0>>),
                          rest |-> rh.rest]
                    ELSE [r |-> -1, abort |-> FALSE, dec |-> d1, rest |-> rh.rest]
               [] rh.st = "RHS_ERROR" ->
                    [r |-> -1, abort |-> FALSE, dec |-> d1, rest |-> rh.rest]
               [] OTHER -> [r |-> -1, abort |-> TRUE, dec |-> d1, rest |-> rh.rest]

\* lsqpack_dec_header_in, malloc succeeding
lsqpack_dec_header_in(dec, stream, header_size, data, chunk) ==
    LET rh == Call("qdec_read_header", <<dec, ReadCtx0(dec, stream, header_size),
                               data, chunk>>)
        saved == [rh.dec EXCEPT !.qpd_hbrcs = Append(@, rh.ctx)]
        sb == Call("stash_blocked_header", <<saved, Len(saved.qpd_hbrcs)>>)
    IN  CASE rh.st = "RHS_DONE" ->
               [r |-> 0, abort |-> FALSE,
                dec |-> DecCb(rh.dec, <<"header_block_done", stream,
                                        rh.ctx.hbrc_header_set>>),
                rest |-> rh.rest]
          [] rh.st = "RHS_NEED" ->
               [r |-> 0, abort |-> FALSE, dec |-> DecCb(saved, <<"wantread", stream, 1>>),
                rest |-> rh.rest]
          [] rh.st = "RHS_BLOCKED" ->
               IF sb.r # 0 THEN [r |-> -1, abort |-> FALSE, dec |-> saved, rest |-> rh.rest]
               ELSE [r |-> 0, abort |-> FALSE,
                     dec |-> DecCb(sb.dec, <<"wantread", stream, 0>>),
                     rest |-> rh.rest]
          [] rh.st = "RHS_ERROR" ->
               [r |-> -1, abort |-> FALSE, dec |-> rh.dec, rest |-> rh.rest]
          [] OTHER -> [r |-> -1, abort |-> TRUE, dec |-> rh.dec, rest |-> rh.rest]

RECURSIVE lsqpack_dec_destroy_header_set(_, _)
\* lsqpack_dec_destroy_header_set: the references the headers own are
\* given back
lsqpack_dec_destroy_header_set(dec, set) ==
    IF set = <<>> THEN dec
    ELSE lsqpack_dec_destroy_header_set(
             IF Head(set).hi_entry # NULL
             THEN qdec_decref_entry(dec, Head(set).hi_entry) ELSE dec,
             Tail(set))

RECURSIVE DecCleanupTable(_)
DecCleanupTable(dec) ==
    IF dec.qpd_dyn_table = <<>> THEN dec
    ELSE LET n == Len(dec.qpd_dyn_table)
         IN  DecCleanupTable(
                 qdec_decref_entry(
                     [dec EXCEPT !.qpd_dyn_table = SubSeq(@, 1, n - 1)],
                     dec.qpd_dyn_table[n]))

\* lsqpack_dec_cleanup: the entry being built is freed, every entry of
\* the table loses the table's reference, the heap is cleaned up
lsqpack_dec_cleanup(dec) ==
    [DecCleanupTable(dec) EXCEPT !.qpd_blocked_headers = <<>>]


----------------------------------------------------------------------------
\* the functions that are called through Call
Call(f, a) ==
    CASE f = "destroy_header_block_read_ctx" ->
           destroy_header_block_read_ctx(a[1], a[2])
      [] f = "enc_has_or_can_evict_at_least" ->
           enc_has_or_can_evict_at_least(a[1], a[2])
      [] f = "encode_programs" ->
           encode_programs(a[1], a[2], a[3], a[4], a[5])
      [] f = "find_header_block_read_ctx" ->
           find_header_block_read_ctx(a[1], a[2])
      [] f = "hset_add_dynamic_entry" ->
           hset_add_dynamic_entry(a[1], a[2], a[3])
      [] f = "hset_add_dynamic_nameref_entry" ->
           hset_add_dynamic_nameref_entry(a[1], a[2], a[3], a[4], a[5])
      [] f = "hset_add_literal_entry" ->
           hset_add_literal_entry(a[1], a[2], a[3], a[4], a[5], a[6])
      [] f = "hset_add_static_entry" ->
           hset_add_static_entry(a[1], a[2], a[3])
      [] f = "hset_add_static_nameref_entry" ->
           hset_add_static_nameref_entry(a[1], a[2], a[3], a[4], a[5])
      [] f = "lsqpack_dec_enc_in" ->
           lsqpack_dec_enc_in(a[1], a[2])
      [] f = "lsqpack_dec_header_in" ->
           lsqpack_dec_header_in(a[1], a[2], a[3], a[4], a[5])
      [] f = "lsqpack_dec_header_read" ->
           lsqpack_dec_header_read(a[1], a[2], a[3], a[4])
      [] f = "lsqpack_dec_int" ->
           lsqpack_dec_int(a[1], a[2], a[3], a[4])
      [] f = "lsqpack_dec_push_entry" ->
           lsqpack_dec_push_entry(a[1], a[2])
      [] f = "lsqpack_enc_enc_str" ->
           lsqpack_enc_enc_str(a[1], a[2], a[3], a[4])
      [] f = "lsqpack_enc_encode" ->
           lsqpack_enc_encode(a[1], a[2], a[3], a[4], a[5], a[6], a[7])
      [] f = "lsqpack_enc_end_header" ->
           lsqpack_enc_end_header(a[1], a[2])
      [] f = "lsqpack_enc_get_stx_tab_id" ->
           lsqpack_enc_get_stx_tab_id(a[1], a[2])
      [] f = "lsqpack_enc_int" ->
           lsqpack_enc_int(a[1], a[2], a[3], a[4])
      [] f = "lsqpack_enc_int_nocheck" ->
           lsqpack_enc_int_nocheck(a[1], a[2], a[3])
      [] f = "lsqpack_enc_push_entry" ->
           lsqpack_enc_push_entry(a[1], a[2], a[3], a[4])
      [] f = "lsqpack_huff_decode" ->
           lsqpack_huff_decode(a[1], a[2], a[3], a[4])
      [] f = "lsqpack_val2len" ->
           lsqpack_val2len(a[1], a[2])
      [] f = "max_to_read" ->
           max_to_read(a[1])
      [] f = "mh_heapify" ->
           mh_heapify(a[1], a[2])
      [] f = "mh_insert" ->
           mh_insert(a[1], a[2], a[3])
      [] f = "mh_pop" ->
           mh_pop(a[1], a[2])
      [] f = "parse_header_data" ->
           parse_header_data(a[1], a[2], a[3], a[4])
      [] f = "parse_header_prefix" ->
           parse_header_prefix(a[1], a[2], a[3], a[4])
      [] f = "qdec_get_table_entry_abs" ->
           qdec_get_table_entry_abs(a[1], a[2])
      [] f = "qdec_get_table_entry_rel" ->
           qdec_get_table_entry_rel(a[1], a[2])
      [] f = "qdec_huff_dec4bits" ->
           qdec_huff_dec4bits(a[1], a[2])
      [] f = "qdec_process_blocked_headers" ->
           qdec_process_blocked_headers(a[1])
      [] f = "qdec_read_header" ->
           qdec_read_header(a[1], a[2], a[3], a[4])
      [] f = "qenc_find_entry" ->
           qenc_find_entry(a[1], a[2], a[3], a[4])
      [] f = "qenc_find_entry_in_either_table" ->
           qenc_find_entry_in_either_table(a[1], a[2], a[3], a[4])
      [] f = "qenc_find_entry_in_static_table" ->
           qenc_find_entry_in_static_table(a[1], a[2])
      [] f = "qenc_huffman_enc" ->
           qenc_huffman_enc(a[1])
      [] f = "stash_blocked_header" ->
           stash_blocked_header(a[1], a[2])
      [] f = "PhdCase" ->
           PhdCase(a[1], a[2], a[3], a[4])
      [] f = "DeiCase" ->
           DeiCase(a[1], a[2], a[3])
      [] f = "PhpCase" ->
           PhpCase(a[1], a[2], a[3], a[4])
      [] f = "EncodeRestart" ->
           EncodeRestart(a[1], a[2], a[3], a[4], a[5], a[6], a[7], a[8])
      [] f = "HuffCk" ->
           HuffCk(a[1], a[2], a[3], a[4], a[5], a[6], a[7])
----------------------------------------------------------------------------
(* An encoder and a decoder joined by the encoder stream and by one
   request stream for each header block.  The application encodes header
   lists, one block to a stream; when a block is complete, the bytes
   lsqpack_enc_encode has put into the encoder buffer go to the encoder
   stream, and those of the header buffer follow the prefix of
   lsqpack_enc_end_header on the block's stream.  The IO layer of the
   decoder hands over the bytes in pieces of its choice. *)

MaxBlocks == 2
MaxHdrs == 2
SmallCap == 34
BigCap == 70
MaxRisk == 2
SmallBuf == 1
BigBuf == 16
MaxChunk == 16

Caps == {0, SmallCap, BigCap}
Risks == 0..MaxRisk
BufSizes == {0, SmallBuf, BigBuf}
MaxResizes == 1
\* a stream id whose acknowledgement takes two bytes
FarStream == 200
PrefixSizes == {0, SmallBuf, SmallBuf + 1}
Chunks == {1, MaxChunk}
Allocs == {"none", "grow", "entry"}

\* the calls of lsqpack_enc_encode the application makes, as
\* [enc_sz, hea_sz, no_index, alloc]: both buffers big, nothing failing,
\* or one of the four out of the ordinary
EncodeInputs ==
    {[enc_sz |-> e, hea_sz |-> BigBuf, no_index |-> 0, alloc |-> "none"] :
         e \in BufSizes}
    \cup
    {[enc_sz |-> BigBuf, hea_sz |-> h, no_index |-> 0, alloc |-> "none"] :
         h \in BufSizes}
    \cup
    {[enc_sz |-> BigBuf, hea_sz |-> BigBuf, no_index |-> n, alloc |-> a] :
         n \in {0, 1}, a \in Allocs}

\* the header fields the application sends, as (name, value) byte strings:
\* a: 1, a: 22, :path: / (static index 4), age: 1 (static name 21), b: 1
Hdrs ==
    << <<<<97>>, <<49>>>>, <<<<97>>, <<50, 50>>>>,
       <<<<58, 112, 97, 116, 104>>, <<47>>>>, <<<<97, 103, 101>>, <<49>>>>,
       <<<<98>>, <<49>>>> >>
\* the first NPlainHdrs of them go through the decoder
NPlainHdrs == 2

VARIABLES
    enc,        \* struct lsqpack_enc
    dec,        \* struct lsqpack_dec
    pc,         \* [enc, dec]: "run", "abort" after a failed assert,
                \* "error" after lsqpack_dec_enc_in returned -1, "clean"
                \* after lsqpack_dec_cleanup
    cur,        \* the block being encoded: the number of its headers,
                \* the headers, the bytes for the two streams, the ids
                \* of the entries referred to, and for each header the
                \* flag it was encoded with, the entry referred to and
                \* the bytes written for it
    blocks,     \* the blocks handed to the streams, by stream
    estream,    \* encoder stream bytes the decoder has not been given
    wire,       \* by stream, block bytes the decoder has not read
    ds,         \* by stream, what the decoder's callbacks have said
    resized,    \* the number of set_max_capacity calls made
    dstream,    \* the bytes the decoder has handed to qpd_write_dec
    fed,        \* the decoder-stream instruction the encoder is being
                \* given: what is left of it, and the last result of
                \* lsqpack_enc_decoder_in
    codec       \* a codec function applied on its own: the input, the
                \* part of it given so far, and the results of the calls

vars == <<enc, dec, pc, cur, blocks, estream, wire, ds, resized, dstream, fed, codec>>

Cur0 == [n |-> 0, hdrs |-> <<>>, enc_bytes |-> <<>>, bytes |-> <<>>,
         refs |-> {}, sent |-> <<>>]
Ds0 == [st |-> "none", wantread |-> 0, stashed |-> 0, wakes |-> 0,
        hset |-> <<>>, destroyed |-> FALSE]

Fed0 == [instr |-> [kind |-> "none", val |-> 0], rest |-> <<>>, r |-> 0,
         calls |-> 0]

\* lsqpack_enc_init and lsqpack_dec_init with the same two settings
Codec0 == [kind |-> "idle"]

InitWith(caps, risks) ==
    /\ \E cap \in caps, risk \in risks :
          /\ enc = lsqpack_enc_init(cap, risk)
          /\ dec = lsqpack_dec_init(cap, risk)
    /\ pc = [enc |-> "run", dec |-> "run"]
    /\ cur = Cur0
    /\ blocks = <<>>
    /\ estream = <<>>
    /\ wire = <<>>
    /\ ds = [s \in 1..MaxBlocks |-> Ds0]
    /\ resized = 0
    /\ dstream = <<>>
    /\ fed = Fed0
    /\ codec = Codec0

Init == InitWith(Caps, Risks)

\* lsqpack_enc_start_header for the next stream; reallocs says whether
\* the realloc of qpe_hinfos_arr can succeed, and fail.  The application
\* encodes as long as the decoder is there.
EncStartHeader(reallocs) ==
    /\ pc.enc = "run"
    /\ pc.dec = "run"
    /\ Len(blocks) < MaxBlocks
    /\ \E realloc_ok \in reallocs :
          \E sh \in {lsqpack_enc_start_header(enc, Len(blocks) + 1, 0,
                                               realloc_ok)} :
              /\ enc' = sh.enc
              /\ cur' = IF sh.r = 0 THEN Cur0 ELSE cur
    /\ UNCHANGED <<dec, pc, blocks, estream, wire, ds, resized, dstream, codec, fed>>

\* of them, the calls in which no_index is clear and no allocation fails
PlainInputs == {in \in EncodeInputs : in.no_index = 0 /\ in.alloc = "none"}

\* lsqpack_enc_encode of one more header field of the block, one of the
\* first nhdrs of Hdrs, called as one of inputs says; wired says that the
\* bytes written are kept for the streams
EncEncode(nhdrs, inputs, wired) ==
    /\ pc.enc = "run"
    /\ pc.dec = "run"
    /\ enc.in_header
    /\ cur.n < MaxHdrs
    /\ \E h \in 1..nhdrs, in \in inputs :
          \E er \in {Call("lsqpack_enc_encode", <<enc, in.enc_sz, in.hea_sz,
                                         Hdrs[h][1], Hdrs[h][2], in.no_index,
                                         in.alloc>>)} :
              /\ enc' = er.enc
              /\ pc' = [pc EXCEPT !.enc = IF er.status = "ABORT"
                                          THEN "abort" ELSE @]
              /\ cur' = IF er.status # "LQES_OK" THEN cur
                        ELSE IF wired
                        THEN [n |-> cur.n + 1,
                              hdrs |-> Append(cur.hdrs, Hdrs[h]),
                              enc_bytes |-> cur.enc_bytes \o er.enc_bytes,
                              bytes |-> cur.bytes \o er.hea_bytes,
                              refs |-> cur.refs \cup
                                       (IF er.ref # 0 THEN {er.ref} ELSE {}),
                              sent |-> Append(cur.sent,
                                       [no_index |-> in.no_index,
                                        ref |-> er.ref,
                                        bytes |-> er.hea_bytes])]
                        ELSE [cur EXCEPT
                                 !.n = @ + 1,
                                 !.refs = @ \cup (IF er.ref # 0 THEN {er.ref}
                                                  ELSE {})]
    /\ UNCHANGED <<dec, blocks, estream, wire, ds, resized, dstream, codec, fed>>

\* lsqpack_enc_end_header with a buffer of one of sizes; the block goes
\* to its stream and what it has added to the encoder stream goes there
EncEndHeader(sizes, wired) ==
    /\ pc.enc = "run"
    /\ pc.dec = "run"
    /\ \E sz \in sizes :
          \E eh \in {Call("lsqpack_enc_end_header", <<enc, sz>>)} :
              /\ enc' = eh.enc
              /\ pc' = [pc EXCEPT !.enc = IF eh.abort THEN "abort" ELSE @]
              /\ IF eh.r > 0
                 THEN LET bytes == IF wired THEN eh.bytes \o cur.bytes
                                   ELSE <<>>
                      IN  /\ blocks' = Append(blocks,
                                [hdrs |-> cur.hdrs, refs |-> cur.refs,
                                 sent |-> cur.sent,
                                 ric |-> enc.qpe_cur_header.hinfo.qhi_max_id,
                                 bytes |-> bytes])
                          /\ wire' = Append(wire, bytes)
                          /\ estream' = estream \o cur.enc_bytes
                          /\ cur' = Cur0
                 ELSE UNCHANGED <<blocks, wire, estream, cur>>
    /\ UNCHANGED <<dec, ds, resized, dstream, codec, fed>>

\* lsqpack_enc_set_max_capacity
EncSetMaxCapacity ==
    /\ pc.enc = "run"
    /\ resized < MaxResizes
    /\ \E c \in Caps :
          /\ c < enc.qpe_max_capacity
          /\ enc' = lsqpack_enc_set_max_capacity(enc, c)
    /\ resized' = resized + 1
    /\ UNCHANGED <<dec, pc, cur, blocks, estream, wire, ds, dstream, codec, fed>>


\* the instructions the peer's decoder sends on its stream: a Header
\* Acknowledgement of a stream, a Table State Synchronize (an increment of
\* the insert count) and a Stream Cancellation
DecoderInstrs ==
    [kind : {"ack"}, val : 1..MaxBlocks \cup {FarStream}]
        \cup [kind : {"synch"}, val : 1..MaxHdrs]
        \cup [kind : {"cancel"}, val : 1..MaxBlocks \cup {MaxBlocks + 2}]

\* the bytes of an instruction: 1xxxxxxx with a 7-bit prefix, 00xxxxxx and
\* 01xxxxxx with a 6-bit prefix
InstrBytes(instr) ==
    CASE instr.kind = "ack" -> Call("lsqpack_enc_int_nocheck", <<128, U64(instr.val), 7>>)
      [] instr.kind = "synch" -> Call("lsqpack_enc_int_nocheck", <<0, U64(instr.val), 6>>)
      [] OTHER -> Call("lsqpack_enc_int_nocheck", <<64, U64(instr.val), 6>>)

\* lsqpack_enc_decoder_in with the next k bytes of the decoder stream: the
\* rest of the instruction begun, or the first bytes of a new one.  The
\* application gives up the encoder when the call returns -1.
EncDecoderIn ==
    /\ pc.enc = "run"
    /\ \E instr \in (IF fed.rest = <<>> THEN DecoderInstrs ELSE {fed.instr}) :
          \E bytes \in {IF fed.rest = <<>> THEN InstrBytes(instr) ELSE fed.rest} :
              \E k \in 1..Len(bytes) :
                  \E r \in {lsqpack_enc_decoder_in(enc, SubSeq(bytes, 1, k))} :
                      /\ enc' = r.enc
                      /\ pc' = [pc EXCEPT !.enc = IF r.abort THEN "abort"
                                                  ELSE IF r.r # 0 THEN "error"
                                                  ELSE @]
                      /\ fed' = [instr |-> instr,
                                 rest |-> SubSeq(bytes, k + 1, Len(bytes)),
                                 r |-> r.r, calls |-> fed.calls + 1]
    /\ UNCHANGED <<dec, cur, blocks, estream, wire, ds, resized, dstream, codec>>
RECURSIVE ApplyCb(_, _, _)
\* the application's callbacks qpd_wantread_header_block and
\* qpd_header_block_done, run on the calls cb in turn; wake says that the
\* calls come from lsqpack_dec_enc_in
ApplyCb(d, cb, wake) ==
    IF cb = <<>> THEN d
    ELSE LET c == Head(cb)
             s == c[2]
         IN  ApplyCb(
                 IF c[1] = "wantread"
                 THEN [d EXCEPT ![s].wantread = c[3],
                                ![s].wakes = @ + (IF wake THEN 1 ELSE 0)]
                 ELSE [d EXCEPT ![s].st = "done", ![s].hset = c[3]],
                 Tail(cb), wake)

\* the stream's context has been put into the heap of blocked headers
Stashed(d, s) ==
    \E k \in 1..Len(d.qpd_blocked_headers) :
        d.qpd_blocked_headers[k].mhe_hbrc = s

\* lsqpack_dec_enc_in with the next n bytes of the encoder stream
DecEncIn ==
    /\ pc.dec = "run"
    /\ estream # <<>>
    /\ \E n \in {1, Len(estream)} :
          \E r \in {Call("lsqpack_dec_enc_in", <<dec, SubSeq(estream, 1, n)>>)} :
              /\ dec' = [r.dec EXCEPT !.cb = <<>>]
              /\ ds' = ApplyCb(ds, r.dec.cb, TRUE)
              /\ estream' = SubSeq(estream, n + 1, Len(estream))
              /\ pc' = [pc EXCEPT !.dec = IF r.r # 0 THEN "error" ELSE @]
    /\ UNCHANGED <<enc, cur, blocks, wire, resized, dstream, codec, fed>>

\* what lsqpack_dec_header_in and lsqpack_dec_header_read of stream s
\* leave behind when n bytes of the stream could be read; r is their
\* result
DecHeaderDone(s, n, r) ==
    LET d1 == ApplyCb(ds, r.dec.cb, FALSE)
        d2 == [d1 EXCEPT
                 ![s].st = IF r.r # 0 THEN "error"
                           ELSE IF @ = "none" THEN "open" ELSE @,
                 ![s].stashed = @ + (IF Stashed(r.dec, s) /\ ~Stashed(dec, s)
                                     THEN 1 ELSE 0)]
    IN  /\ dec' = [r.dec EXCEPT !.cb = <<>>]
        /\ ds' = d2
        /\ wire' = [wire EXCEPT
                      ![s] = r.rest \o SubSeq(@, n + 1, Len(@))]
        /\ pc' = [pc EXCEPT !.dec = IF r.abort THEN "abort" ELSE @]

\* lsqpack_dec_header_in: a block has arrived on stream s, n of its bytes
\* can be read now, at most chunk in one call of the read callback
DecHeaderIn ==
    /\ pc.dec = "run"
    /\ \E s \in 1..Len(blocks) :
          /\ ds[s].st = "none"
          /\ \E n \in {1, Len(wire[s])}, chunk \in Chunks :
                DecHeaderDone(s, n,
                    Call("lsqpack_dec_header_in", <<dec, s, Len(blocks[s].bytes),
                                          SubSeq(wire[s], 1, n), chunk>>))
    /\ UNCHANGED <<enc, cur, blocks, estream, resized, dstream, codec, fed>>

\* lsqpack_dec_header_read: the stream is readable and the decoder has
\* asked for its bytes; by now all that is left of the block can be read
DecHeaderRead ==
    /\ pc.dec = "run"
    /\ \E s \in 1..Len(blocks) :
          /\ ds[s].st = "open"
          /\ ds[s].wantread = 1
          /\ wire[s] # <<>>
          /\ \E n \in {Len(wire[s])}, chunk \in Chunks :
                DecHeaderDone(s, n,
                    Call("lsqpack_dec_header_read", <<dec, s, SubSeq(wire[s], 1, n),
                                            chunk>>))
    /\ UNCHANGED <<enc, cur, blocks, estream, resized, dstream, codec, fed>>

\* lsqpack_dec_destroy_header_set of a header set the application holds
DecDestroyHeaderSet ==
    /\ \E s \in 1..MaxBlocks :
          /\ ds[s].st = "done"
          /\ ~ds[s].destroyed
          /\ dec' = lsqpack_dec_destroy_header_set(dec, ds[s].hset)
          /\ ds' = [ds EXCEPT ![s].destroyed = TRUE]
    /\ UNCHANGED <<enc, pc, cur, blocks, estream, wire, resized, dstream, codec, fed>>

\* lsqpack_dec_set_max_capacity
DecSetMaxCapacity ==
    /\ pc.dec = "run"
    /\ resized < MaxResizes
    /\ \E c \in Caps :
          /\ c < dec.qpd_max_capacity
          /\ dec' = lsqpack_dec_set_max_capacity(dec, c)
    /\ resized' = resized + 1
    /\ UNCHANGED <<enc, pc, cur, blocks, estream, wire, ds, dstream, codec, fed>>

\* lsqpack_dec_cleanup
DecCleanup ==
    /\ pc.dec = "run"
    /\ dec' = lsqpack_dec_cleanup(dec)
    /\ pc' = [pc EXCEPT !.dec = "clean"]
    /\ UNCHANGED <<enc, cur, blocks, estream, wire, ds, resized, dstream, codec, fed>>

Next ==
    \/ EncStartHeader({TRUE})
    \/ EncEncode(NPlainHdrs, PlainInputs, TRUE)
    \/ EncEndHeader(PrefixSizes, TRUE)
    \/ EncSetMaxCapacity
    \/ DecEncIn
    \/ DecHeaderIn
    \/ DecHeaderRead
    \/ DecDestroyHeaderSet
    \/ DecSetMaxCapacity
    \/ DecCleanup

Spec == Init /\ [][Next]_vars

(* The encoder alone, called in every way of EncodeInputs, what it writes
   thrown away. *)
NextEnc ==
    \/ EncStartHeader(BOOLEAN)
    \/ EncEncode(Len(Hdrs), EncodeInputs, FALSE)
    \/ EncEndHeader(PrefixSizes, FALSE)
    \/ EncSetMaxCapacity

SpecEnc == Init /\ [][NextEnc]_vars

\* the encoder with the decoder stream of its peer
NextAck ==
    \/ EncStartHeader({TRUE})
    \/ EncEncode(NPlainHdrs, PlainInputs, FALSE)
    \/ EncEndHeader(PrefixSizes, FALSE)
    \/ EncDecoderIn

SpecAck == Init /\ [][NextAck]_vars
----------------------------------------------------------------------------
(* The integer codec on its own: lsqpack_enc_int and lsqpack_dec_int
   applied to chosen values and byte strings, the bytes being fed to the
   decoder in one call or in several. *)

\* 2^k as a uint64_t, k < 64
P2(k) ==
    IF k < 28 THEN <<2 ^ k, 0, 0>>
    ELSE IF k < 56 THEN <<0, 2 ^ (k - 28), 0>>
    ELSE <<0, 0, 2 ^ (k - 56)>>

\* val + n for n < 2^28, modulo 2^64
U64Add(val, n) == U64Carry(val[1] + n, val[2], val[3])

\* UINT64_MAX
U64Max == <<Limb - 1, Limb - 1, 255>>

\* the bit positions around which the values to encode are taken
IntBits == {7, 14, 21, 28, 35, 42, 49, 56, 62, 63}

\* the values encoded with a prefix of prefix_bits bits: the small ones,
\* those next to the largest prefix value, next to the powers of two and
\* next to the values at which the encoding grows by one byte
IntValues(prefix_bits) ==
    LET prefix_max == 2 ^ prefix_bits - 1
    IN  {U64(n) : n \in {0, 1, prefix_max - 1, prefix_max, prefix_max + 1,
                         prefix_max + 127, prefix_max + 128}}
        \cup {U64Sub(P2(k), 1) : k \in IntBits}
        \cup {P2(k) : k \in IntBits}
        \cup {U64Add(P2(k), prefix_max - 1) : k \in IntBits}
        \cup {U64Add(P2(k), prefix_max) : k \in IntBits \ {63}}
        \cup {U64Add(P2(63), prefix_max - 1), U64Max}

\* the room of the buffer lsqpack_enc_int writes into: enough for the
\* eleven bytes of the longest encoding
IntRoom == 11

\* the bytes that may follow an encoding in the buffer given to the decoder
IntTails == {<<>>, <<255>>}

\* the most continuation bytes of a byte string made by hand
MaxCont == 11

\* byte strings that no encoder need have written: a first byte with the
\* prefix all ones, n continuation bytes c with the high bit set, and a last
\* byte without it (or none)
RawInts(prefix_bits) ==
    LET first == 2 ^ prefix_bits - 1
        rep(c, n) == [j \in 1..n |-> c]
    IN  {<<first>> \o rep(c, n) \o last :
            c \in {128, 255}, n \in 0..MaxCont,
            last \in {<<>>, <<0>>, <<1>>, <<2>>, <<127>>}}

\* an integer is about to be decoded from bytes: given counts the bytes
\* handed to lsqpack_dec_int so far, calls its calls, needs those that
\* returned -1; bytewise says that every call had one byte; r, val64 and
\* used are the result of the last call, *value_p and the bytes that src
\* has been moved over
CodecInt(kind, prefix_bits, value, enc_len, bytes) ==
    [kind |-> kind, prefix_bits |-> prefix_bits, value |-> value,
     enc_len |-> enc_len, bytes |-> bytes, given |-> 0, calls |-> 0,
     needs |-> 0, bytewise |-> TRUE, st |-> DecIntState0, r |-> -1,
     val64 |-> U64(0), used |-> 0, done |-> FALSE]

\* lsqpack_enc_int of a value into a buffer with room for any encoding
IntEncode ==
    /\ codec.kind = "idle"
    /\ \E prefix_bits \in 1..8 :
          \E value \in IntValues(prefix_bits), tail \in IntTails :
             \E w \in {Call("lsqpack_enc_int", <<0, IntRoom, value, prefix_bits>>)} :
                codec' = CodecInt("enc", prefix_bits, value, Len(w.bytes),
                                  w.bytes \o tail)
    /\ UNCHANGED <<enc, dec, pc, cur, blocks, estream, wire, ds, resized,
                   dstream, fed>>

\* a byte string arrives that holds a prefix integer, well formed or not
IntRaw ==
    /\ codec.kind = "idle"
    /\ \E prefix_bits \in 1..8 :
          \E bytes \in RawInts(prefix_bits) :
             codec' = CodecInt("raw", prefix_bits, U64(0), 0, bytes)
    /\ UNCHANGED <<enc, dec, pc, cur, blocks, estream, wire, ds, resized,
                   dstream, fed>>

\* lsqpack_dec_int with the next byte, or with all the bytes that are left
IntDecode ==
    /\ codec.kind \in {"enc", "raw"}
    /\ ~codec.done
    /\ codec.given < Len(codec.bytes)
    /\ \E k \in {1, Len(codec.bytes) - codec.given} :
          \E d \in {Call("lsqpack_dec_int", <<
                        SubSeq(codec.bytes, codec.given + 1, codec.given + k),
                        1, codec.prefix_bits, codec.st>>)} :
             codec' = [codec EXCEPT
                          !.given = @ + k,
                          !.calls = @ + 1,
                          !.needs = @ + (IF d.r = -1 THEN 1 ELSE 0),
                          !.bytewise = @ /\ k = 1,
                          !.st = d.st,
                          !.r = d.r,
                          !.val64 = d.val64,
                          !.used = IF d.r = 0 THEN codec.given + d.pos - 1
                                   ELSE @,
                          !.done = d.r # -1]
    /\ UNCHANGED <<enc, dec, pc, cur, blocks, estream, wire, ds, resized,
                   dstream, fed>>

InitInt == InitWith({BigCap}, {0})

NextInt == IntEncode \/ IntRaw \/ IntDecode

SpecInt == InitInt /\ [][NextInt]_vars
----------------------------------------------------------------------------
(* The Huffman codec on its own: qenc_huffman_enc and lsqpack_huff_decode
   applied to chosen strings, the decoder being given its source in chunks
   and destinations of limited size. *)

\* the longest string encoded, apart from the strings of one byte
MaxStr == 3

\* the bytes of the longer strings: codes of 6, 8, 5, 13 and 26 bits
HuffAlphabet == {32, 38, 48, 0, 255}

\* every string of one byte, the empty string, and the strings of 2 to
\* MaxStr bytes over HuffAlphabet
HuffStrings ==
    {<<>>} \cup {<<b>> : b \in 0..255}
    \cup UNION {[1..n -> HuffAlphabet] : n \in 2..MaxStr}

\* sources that qenc_huffman_enc need not have written: bytes that end
\* inside a code, long runs of ones (the code of EOS), padding with zeros
HuffRaws ==
    {<<>>} \cup {<<b>> : b \in 0..255}
    \cup {<<a, b>> : a \in {0, 31, 254, 255}, b \in {0, 7, 63, 255}}
    \cup {<<255, 255, 255, b>> : b \in {0, 63, 252, 255}}
    \cup {<<7, 255, 255, 255, b>> : b \in {192, 255}}

\* a destination that holds any of the strings and is not filled by it
BigDst == 4

\* the sizes of the destination given to a call
DstLens == {1, BigDst}

\* a source is about to be decoded: pos counts the source bytes the decoder
\* has reported read, out is what it has reported written; status and final
\* are the result and the flag of the last call; oks counts the calls that
\* returned HUFF_DEC_OK; whole says that the only call so far had all the
\* source and a destination of BigDst; end_src and end_dst are the values
\* of resume left by the calls that returned HUFF_DEC_END_SRC and
\* HUFF_DEC_END_DST
CodecHuff(kind, str, src) ==
    [kind |-> kind, str |-> str, src |-> src, pos |-> 0, out |-> <<>>,
     hs |-> HuffState0, status |-> "none", final |-> FALSE, oks |-> 0,
     whole |-> FALSE, end_src |-> {}, end_dst |-> {}]

\* qenc_huffman_enc of a string
HuffEncode ==
    /\ codec.kind = "idle"
    /\ \E str \in HuffStrings :
          \E src \in {Call("qenc_huffman_enc", <<str>>)} :
             codec' = CodecHuff("henc", str, src)
    /\ UNCHANGED <<enc, dec, pc, cur, blocks, estream, wire, ds, resized,
                   dstream, fed>>

\* a source arrives that may not be a Huffman encoding
HuffRaw ==
    /\ codec.kind = "idle"
    /\ \E src \in HuffRaws : codec' = CodecHuff("hraw", <<>>, src)
    /\ UNCHANGED <<enc, dec, pc, cur, blocks, estream, wire, ds, resized,
                   dstream, fed>>

\* lsqpack_huff_decode with the next source byte or with all the source
\* that is left, from the first byte not reported read, and with a new
\* destination; final is set when the source given ends the string
HuffDecode ==
    /\ codec.kind \in {"henc", "hraw"}
    /\ codec.status \notin {"OK", "ERROR"}
    /\ LET rest == Len(codec.src) - codec.pos
       IN  /\ rest > 0 \/ codec.status = "none"
           /\ \E n \in {Min(1, rest), rest}, dst_len \in DstLens :
                 \E d \in {Call("lsqpack_huff_decode", <<
                               SubSeq(codec.src, codec.pos + 1, codec.pos + n),
                               dst_len, codec.hs, n = rest>>)} :
                    codec' = [codec EXCEPT
                        !.pos = @ + d.n_src,
                        !.out = @ \o SubSeq(d.out, 1, d.n_dst),
                        !.hs = d.hs,
                        !.status = d.status,
                        !.final = (n = rest),
                        !.oks = @ + (IF d.status = "OK" THEN 1 ELSE 0),
                        !.whole = /\ codec.status = "none"
                                  /\ n = rest
                                  /\ dst_len = BigDst,
                        !.end_src = @ \cup (IF d.status = "END_SRC"
                                            THEN {d.hs.resume} ELSE {}),
                        !.end_dst = @ \cup (IF d.status = "END_DST"
                                            THEN {d.hs.resume} ELSE {})]
    /\ UNCHANGED <<enc, dec, pc, cur, blocks, estream, wire, ds, resized,
                   dstream, fed>>

InitHuff == InitWith({BigCap}, {0})

NextHuff == HuffEncode \/ HuffRaw \/ HuffDecode

SpecHuff == InitHuff /\ [][NextHuff]_vars
----------------------------------------------------------------------------
(* The static table lookup on its own: lsqpack_enc_get_stx_tab_id applied
   to chosen header fields, and lsqpack_enc_encode applied to the same
   field by an encoder that has a header block open. *)

\* a value no entry of the static table has
StxOtherVal == <<120>>

\* names that are not in the static table: shorter than three bytes, and of
\* the length and first byte of a name that is ("age", ":path", "via")
StxOtherNames ==
    {<<97>>, <<97, 103>>, <<97, 103, 102>>, <<58, 112, 97, 116, 105>>,
     <<118, 105, 98>>, <<122, 122, 122>>}

\* the header fields looked up: every entry of the static table, every
\* name of the table with a value of another entry, with a value no entry
\* has and with no value, and the names that are not in the table with the
\* same values
StxInputs ==
    LET names == {static_table[i].name : i \in 1..QPACK_STATIC_TABLE_SIZE}
                 \cup StxOtherNames
        vals == {static_table[i].val : i \in {2, 4, 8, 16}}
                \cup {StxOtherVal, <<>>}
    IN  {<<static_table[i].name, static_table[i].val>> :
            i \in 1..QPACK_STATIC_TABLE_SIZE}
        \cup (names \X vals)

\* lsqpack_enc_get_stx_tab_id of a header field
StxLookup ==
    /\ codec.kind = "idle"
    /\ \E h \in StxInputs :
          \E r \in {Call("lsqpack_enc_get_stx_tab_id", <<h[1], h[2]>>)} :
             codec' = [kind |-> "stx", name |-> h[1], val |-> h[2],
                       id |-> r.id, val_matched |-> r.val_matched,
                       encoded |-> FALSE, status |-> "none",
                       enc_bytes |-> <<>>, hea_bytes |-> <<>>,
                       same_table |-> TRUE]
    /\ UNCHANGED <<enc, dec, pc, cur, blocks, estream, wire, ds, resized,
                   dstream, fed>>

\* lsqpack_enc_encode of the header field looked up, with room in both
\* buffers and no_index clear
StxEncode ==
    /\ codec.kind = "stx"
    /\ ~codec.encoded
    /\ enc.in_header
    /\ \E er \in {Call("lsqpack_enc_encode", <<enc, BigBuf, BigBuf, codec.name,
                                     codec.val, 0, "none">>)} :
          /\ enc' = er.enc
          /\ codec' = [codec EXCEPT
                          !.encoded = TRUE,
                          !.status = er.status,
                          !.enc_bytes = er.enc_bytes,
                          !.hea_bytes = er.hea_bytes,
                          !.same_table =
                              /\ er.enc.qpe_all_entries = enc.qpe_all_entries
                              /\ er.enc.qpe_ins_count = enc.qpe_ins_count]
    /\ UNCHANGED <<dec, pc, cur, blocks, estream, wire, ds, resized,
                   dstream, fed>>

InitStx == InitWith({0, BigCap}, {0, MaxRisk})

NextStx == EncStartHeader({TRUE}) \/ StxLookup \/ StxEncode

SpecStx == InitStx /\ [][NextStx]_vars

(* Literals on their way to the decoder: header lists whose fields are
   encoded with and without LQEF_NO_INDEX, both buffers big, each block
   written out and read by the decoder before the next is begun. *)
NNeverHdrs == 4
NeverInputs ==
    {in \in EncodeInputs :
        in.enc_sz = BigBuf /\ in.hea_sz = BigBuf /\ in.alloc = "none"}

InitNever == InitWith({0, BigCap}, {MaxRisk})

\* the decoder has been handed all that was written for it
AllRead == estream = <<>> /\ \A s \in 1..Len(wire) : wire[s] = <<>>

NeverStartHeader == AllRead /\ EncStartHeader({TRUE})

NextNever ==
    \/ NeverStartHeader
    \/ EncEncode(NNeverHdrs, NeverInputs, TRUE)
    \/ EncEndHeader({SmallBuf + 1}, TRUE)
    \/ DecEncIn
    \/ DecHeaderIn
    \/ DecHeaderRead

SpecNever == InitNever /\ [][NextNever]_vars

(* The decoder with a peer that writes what it likes: insert instructions
   on the encoder stream, and header blocks of one field line whose index
   may name no entry. *)
MaxRawInserts == 3
MaxRawIdx == 3
MaxRawBlocks == 1

\* Insert Without Name Reference of a: 1 and of a: 22
RawInserts == {<<65, 97, 1, 49>>, <<65, 97, 2, 50, 50>>}

\* the field lines, as [kind, idx]: indexed static and dynamic, literal
\* with static and with dynamic name reference, indexed post-base and
\* literal with post-base name reference
RawReps ==
    [kind : {"idx_stat", "name_stat"},
     idx : {0, 1, QPACK_STATIC_TABLE_SIZE, QPACK_STATIC_TABLE_SIZE + 1}]
        \cup [kind : {"idx_dyn", "name_dyn", "idx_post", "name_post"},
              idx : 0..MaxRawIdx]

\* the bytes of the index of a field line
RawIdxBytes(rep) ==
    CASE rep.kind = "idx_stat" -> Call("lsqpack_enc_int_nocheck", <<192, U64(rep.idx), 6>>)
      [] rep.kind = "idx_dyn" -> Call("lsqpack_enc_int_nocheck", <<128, U64(rep.idx), 6>>)
      [] rep.kind = "name_stat" -> Call("lsqpack_enc_int_nocheck", <<80, U64(rep.idx), 4>>)
      [] rep.kind = "name_dyn" -> Call("lsqpack_enc_int_nocheck", <<64, U64(rep.idx), 4>>)
      [] rep.kind = "idx_post" -> Call("lsqpack_enc_int_nocheck", <<16, U64(rep.idx), 4>>)
      [] OTHER -> Call("lsqpack_enc_int_nocheck", <<0, U64(rep.idx), 3>>)

\* the bytes of a field line; the value of a literal is "1"
RawRepBytes(rep) ==
    RawIdxBytes(rep)
        \o (IF rep.kind \in {"idx_stat", "idx_dyn", "idx_post"} THEN <<>>
            ELSE <<1, 49>>)

\* the peer sends one more insert instruction
RawInsert ==
    /\ pc.dec = "run"
    /\ estream = <<>>
    /\ dec.qpd_ins_count < MaxRawInserts
    /\ \E ins \in RawInserts : estream' = ins
    /\ UNCHANGED <<enc, dec, pc, cur, blocks, wire, ds, resized, dstream, codec, fed>>

\* the peer sends a header block on the next stream: the prefix with
\* largest reference ric and the base index at it or one below, and one
\* field line
RawBlock ==
    /\ pc.dec = "run"
    /\ Len(blocks) < MaxRawBlocks
    /\ Len(blocks) < MaxBlocks
    /\ \A s \in 1..Len(wire) : wire[s] = <<>>
    /\ \E ric \in 0..MaxRawInserts, below \in {0, 1}, rep \in RawReps :
          LET bytes == <<ric, IF below = 1 THEN 129 ELSE 0>>
                           \o RawRepBytes(rep)
          IN  /\ below <= ric
              /\ blocks' = Append(blocks,
                    [hdrs |-> <<>>, refs |-> {}, sent |-> <<>>,
                     ric |-> ric, base |-> ric - below, bytes |-> bytes,
                     rep |-> rep, at |-> 2 + Len(RawIdxBytes(rep)),
                     del |-> dec.qpd_del_count])
              /\ wire' = Append(wire, bytes)
    /\ UNCHANGED <<enc, dec, pc, cur, estream, ds, resized, dstream, codec, fed>>

InitRaw == InitWith({SmallCap, BigCap}, {MaxRisk})

NextRaw ==
    \/ RawInsert
    \/ RawBlock
    \/ DecEncIn
    \/ DecHeaderIn
    \/ DecHeaderRead

SpecRaw == InitRaw /\ [][NextRaw]_vars
(* The decoder reading header blocks in pieces: the peer sends
   inserts, and a header block whose declared size may end anywhere, and
   the stream gives the bytes out whole or one at a time. *)
MaxFragInserts == 2

\* a value of two bytes, plain and Huffman-coded
FragPlain == <<2, 50, 50>>
FragHuff ==
    LET h == Call("qenc_huffman_enc", <<<<50, 50>>>>) IN <<128 + Len(h)>> \o h

\* the field sections of the blocks: an indexed static field line, a
\* literal with a reference to a static name whose index takes two bytes,
\* one with a Huffman-coded value, an indexed dynamic field line, a
\* literal with a reference to a dynamic name, an indexed static field
\* line after a literal, and a literal without name reference
FragLines ==
    { <<209>>,
      Call("lsqpack_enc_int_nocheck", <<80, U64(16), 4>>) \o FragPlain,
      <<81>> \o FragHuff,
      <<129>>,
      <<64>> \o FragPlain,
      <<81>> \o FragPlain \o <<209>>,
      <<33, 97>> \o FragPlain }

\* the prefixes: largest reference 0 and 1 in one byte, and a largest
\* reference of 255 and of 256, which take two bytes
FragPrefixes == { <<0, 0>>, <<1, 0>>, <<255, 0, 0>>, <<255, 1, 0>> }

\* the blocks: a prefix and a field section, cut off after any byte, as
\* [plen, line, cut]
FragBlocks ==
    { [plen |-> Len(t[1]), line |-> t[2], cut |-> t[3],
       bytes |-> SubSeq(t[1] \o t[2], 1, t[3])] :
        t \in { t \in FragPrefixes \X FragLines \X (1..8) :
                   t[3] <= Len(t[1] \o t[2]) } }

\* the peer sends one more insert instruction
FragInsert ==
    /\ pc.dec = "run"
    /\ estream = <<>>
    /\ dec.qpd_ins_count < MaxFragInserts
    /\ \E ins \in RawInserts : estream' = ins
    /\ UNCHANGED <<enc, dec, pc, cur, blocks, wire, ds, resized, dstream, codec, fed>>

\* the peer sends a header block on stream 1; its declared size is the
\* number of its bytes
FragBlock ==
    /\ pc.dec = "run"
    /\ estream = <<>>
    /\ blocks = <<>>
    /\ \E b \in FragBlocks :
          /\ blocks' = <<[hdrs |-> <<>>, refs |-> {}, sent |-> <<>>,
                          bytes |-> b.bytes, plen |-> b.plen,
                          line |-> b.line, cut |-> b.cut,
                          del |-> dec.qpd_del_count]>>
          /\ wire' = <<b.bytes>>
    /\ UNCHANGED <<enc, dec, pc, cur, estream, ds, resized, dstream, codec, fed>>

\* lsqpack_dec_header_read when the decoder has asked for the stream and
\* the stream is readable, having bytes or having ended: all that is left
\* of the block can be read, or one more byte of it
DecHeaderReadSome ==
    /\ pc.dec = "run"
    /\ \E s \in 1..Len(blocks) :
          /\ ds[s].st = "open"
          /\ ds[s].wantread = 1
          /\ \E n \in {Min(1, Len(wire[s])), Len(wire[s])}, chunk \in Chunks :
                DecHeaderDone(s, n,
                    Call("lsqpack_dec_header_read", <<dec, s, SubSeq(wire[s], 1, n),
                                            chunk>>))
    /\ UNCHANGED <<enc, cur, blocks, estream, resized, dstream, codec, fed>>

InitFrag == InitWith({SmallCap, BigCap}, {0, MaxRisk})

NextFrag ==
    \/ FragInsert
    \/ FragBlock
    \/ DecEncIn
    \/ DecHeaderIn
    \/ DecHeaderReadSome

SpecFrag == InitFrag /\ [][NextFrag]_vars

(* The decoder's table under a peer that writes every kind of
   encoder-stream instruction, and an application that lowers the
   capacity. *)
MaxTabInserts == 3

\* the capacities a Set Dynamic Table Capacity instruction asks for
TabCaps == {0, SmallCap, BigCap, BigCap + 1}

\* Set Dynamic Table Capacity
SizeUpdate(c) == Call("lsqpack_enc_int_nocheck", <<32, U64(c), 5>>)

\* Insert Without Name Reference of a: 1 and of a: 22, Insert With Name
\* Reference to the static entry 1 and to the newest dynamic entry, and
\* Duplicate of the newest and of the one before it
TabInserts ==
    RawInserts \cup {<<193, 1, 49>>, <<128, 1, 50>>, <<0>>, <<1>>}

\* the peer sends one more instruction
TabInstr ==
    /\ pc.dec = "run"
    /\ estream = <<>>
    /\ \/ /\ dec.qpd_ins_count < MaxTabInserts
          /\ \E ins \in TabInserts : estream' = ins
       \/ \E c \in TabCaps :
             /\ c # dec.qpd_cur_max_capacity
             /\ estream' = SizeUpdate(c)
    /\ UNCHANGED <<enc, dec, pc, cur, blocks, wire, ds, resized, dstream, codec, fed>>

InitTab == InitWith(Caps, {MaxRisk})

NextTab ==
    \/ TabInstr
    \/ DecEncIn
    \/ DecSetMaxCapacity

SpecTab == InitTab /\ [][NextTab]_vars

(* The encoder alone with a table that has room for four entries, so that
   the bucket array is grown. *)
HugeCap == 140

InitGrow == InitWith({HugeCap}, {MaxRisk})

SpecGrow == InitGrow /\ [][NextEnc]_vars

(* Literals without name reference from the encoder to the decoder: the
   tables have capacity 0, the names are not in the static table, and the
   stream gives the block out whole or one byte at a time. *)

\* names of one to eight bytes: of '$', whose code has 13 bits, written
\* plain, and of 'a', whose code has 5 bits, written Huffman-coded from
\* three bytes on
LitNames ==
    { [k \in 1..n |-> c] : n \in {1, 2, 3, 4, 7}, c \in {36} }
    \cup { [k \in 1..n |-> c] : n \in {3, 5, 8}, c \in {97} }

\* lsqpack_enc_encode of the one field of the block, with and without
\* LQEF_NO_INDEX
NameEncode ==
    /\ pc.enc = "run"
    /\ pc.dec = "run"
    /\ enc.in_header
    /\ cur.n = 0
    /\ \E name \in LitNames, no_index \in {0, 1} :
          \E er \in {Call("lsqpack_enc_encode", <<enc, BigBuf, BigBuf, name, <<49>>,
                                         no_index, "none">>)} :
              /\ enc' = er.enc
              /\ pc' = [pc EXCEPT !.enc = IF er.status = "ABORT"
                                          THEN "abort" ELSE @]
              /\ cur' = IF er.status # "LQES_OK" THEN cur
                        ELSE [n |-> cur.n + 1,
                              hdrs |-> Append(cur.hdrs, <<name, <<49>>>>),
                              enc_bytes |-> cur.enc_bytes \o er.enc_bytes,
                              bytes |-> cur.bytes \o er.hea_bytes,
                              refs |-> cur.refs,
                              sent |-> Append(cur.sent,
                                       [no_index |-> no_index,
                                        ref |-> er.ref,
                                        bytes |-> er.hea_bytes])]
    /\ UNCHANGED <<dec, blocks, estream, wire, ds, resized, dstream, codec, fed>>

InitName == InitWith({0}, {0, MaxRisk})

NextName ==
    \/ NeverStartHeader
    \/ NameEncode
    \/ EncEndHeader({SmallBuf + 1}, TRUE)
    \/ DecHeaderIn
    \/ DecHeaderReadSome

SpecName == InitName /\ [][NextName]_vars

(* The lists of the encoder's dynamic table: qpe_all_entries and the
   bucket array qpe_buckets with its two lists per bucket.  XXH32 is not
   part of the sources, so the two hashes of an entry are inputs of the
   push.  An entry on a list is the record of its fields. *)
MaxListInserts == 5
EntrySize == 34

\* the capacities the table is given: none, one, two and five entries
ListCaps == {0, EntrySize, 2 * EntrySize, 5 * EntrySize}

\* <<ete_name_hash, ete_nameval_hash>> of the entries pushed: hashes that
\* share a bucket among four and part among eight or among sixteen
HashPairs == { <<0, 0>>, <<4, 0>>, <<4, 12>>, <<5, 4>>, <<12, 5>> }

N_BUCKETS(n_bits) == 2 ^ n_bits
BUCKNO(n_bits, hash) == hash % N_BUCKETS(n_bits)

\* STAILQ_INIT of by_name and by_nameval
EmptyBucket == [by_name |-> <<>>, by_nameval |-> <<>>]

\* what lsqpack_enc_init leaves of the table
ListsInit(dyn_table_size) ==
    [qpe_nbits |-> 2, qpe_nelem |-> 0, qpe_ins_count |-> 0,
     qpe_cur_capacity |-> 0, qpe_max_capacity |-> dyn_table_size,
     qpe_all_entries |-> <<>>,
     qpe_buckets |-> [n \in 1..N_BUCKETS(2) |-> EmptyBucket],
     abort |-> FALSE]

\* the entries of list that go to new[idx] of qenc_grow_tables, in order
GrowPick(list, old_nbits, idx, by_name) ==
    LET goes(entry) ==
            (BUCKNO(old_nbits + 1,
                    IF by_name THEN entry.ete_name_hash
                    ELSE entry.ete_nameval_hash)
             \div N_BUCKETS(old_nbits)) % 2 = idx
    IN  SelectSeq(list, goes)

\* qenc_grow_tables with every entry moved to new[0]
grow_tables_without_split(t) ==
    LET old_nbits == t.qpe_nbits
        new_buckets ==
            [m \in 1..N_BUCKETS(old_nbits + 1) |->
                IF m <= N_BUCKETS(old_nbits) THEN t.qpe_buckets[m]
                ELSE EmptyBucket]
    IN  [t EXCEPT !.qpe_nbits = old_nbits + 1, !.qpe_buckets = new_buckets]

\* qenc_grow_tables when malloc succeeds: the entries of bucket n go to
\* new[0] = new_buckets[n] and new[1] = new_buckets[n + N_BUCKETS(old_nbits)]
qenc_grow_tables(t) ==
    LET old_nbits == t.qpe_nbits
        new_buckets ==
            [m \in 1..N_BUCKETS(old_nbits + 1) |->
                LET n == ((m - 1) % N_BUCKETS(old_nbits)) + 1
                    idx == (m - 1) \div N_BUCKETS(old_nbits)
                IN  [by_name |-> GrowPick(t.qpe_buckets[n].by_name,
                                          old_nbits, idx, TRUE),
                     by_nameval |-> GrowPick(t.qpe_buckets[n].by_nameval,
                                             old_nbits, idx, FALSE)]]
    IN  [t EXCEPT !.qpe_nbits = old_nbits + 1, !.qpe_buckets = new_buckets]

\* qenc_drop_oldest_entry on the lists; abort is a failed assert
ListsDropOldest(t) ==
    IF t.qpe_all_entries = <<>> THEN [t EXCEPT !.abort = TRUE]
    ELSE LET entry == Head(t.qpe_all_entries)
             nv == BUCKNO(t.qpe_nbits, entry.ete_nameval_hash) + 1
             nm == BUCKNO(t.qpe_nbits, entry.ete_name_hash) + 1
             first(list) == list # <<>> /\ Head(list) = entry
         IN  IF ~first(t.qpe_buckets[nv].by_nameval)
                \/ ~first(t.qpe_buckets[nm].by_name)
             THEN [t EXCEPT !.abort = TRUE]
             ELSE [t EXCEPT
                     !.qpe_all_entries = Tail(@),
                     !.qpe_buckets =
                         [[@ EXCEPT ![nv].by_nameval = Tail(@)]
                             EXCEPT ![nm].by_name = Tail(@)],
                     !.qpe_cur_capacity = @ - entry.size,
                     !.qpe_nelem = @ - 1]

RECURSIVE ListsRemoveOverflow(_)
\* qenc_remove_overflow_entries on the lists
ListsRemoveOverflow(t) ==
    IF t.abort \/ ~(t.qpe_cur_capacity > t.qpe_max_capacity) THEN t
    ELSE ListsRemoveOverflow(ListsDropOldest(t))

\* lsqpack_enc_push_entry on the lists; alloc as in lsqpack_enc_push_entry
ListsPushEntry(t, name_hash, nameval_hash, size, alloc) ==
    LET grow == t.qpe_nelem >= N_BUCKETS(t.qpe_nbits) \div 2
        t1 == IF grow THEN qenc_grow_tables(t) ELSE t
        entry == [ete_id |-> 1 + t.qpe_ins_count,
                  ete_name_hash |-> name_hash,
                  ete_nameval_hash |-> nameval_hash, size |-> size]
        nv == BUCKNO(t1.qpe_nbits, nameval_hash) + 1
        nm == BUCKNO(t1.qpe_nbits, name_hash) + 1
        t2 == [t1 EXCEPT
                 !.qpe_ins_count = @ + 1,
                 !.qpe_all_entries = Append(@, entry),
                 !.qpe_buckets =
                     [[@ EXCEPT ![nv].by_nameval = Append(@, entry)]
                         EXCEPT ![nm].by_name = Append(@, entry)],
                 !.qpe_cur_capacity = @ + size,
                 !.qpe_nelem = @ + 1]
    IN  IF grow /\ alloc = "grow" THEN t
        ELSE IF alloc = "entry" THEN t1
        ELSE ListsRemoveOverflow(t2)

\* lsqpack_enc_push_entry of an entry with some hashes
ListsPush ==
    /\ codec.kind = "lists"
    /\ ~codec.t.abort
    /\ codec.t.qpe_ins_count < MaxListInserts
    /\ \E h \in HashPairs, alloc \in {"none", "grow", "entry"} :
          \E t \in {ListsPushEntry(codec.t, h[1], h[2], EntrySize, alloc)} :
              codec' = [kind |-> "lists", t |-> t, op |-> "push"]
    /\ UNCHANGED <<enc, dec, pc, cur, blocks, estream, wire, ds, resized, dstream, fed>>

\* lsqpack_enc_set_max_capacity
ListsSetMaxCapacity ==
    /\ codec.kind = "lists"
    /\ ~codec.t.abort
    /\ \E c \in ListCaps \ {codec.t.qpe_max_capacity} :
          \E t \in {ListsRemoveOverflow(
                        [codec.t EXCEPT !.qpe_max_capacity = c])} :
              codec' = [kind |-> "lists", t |-> t, op |-> "capacity"]
    /\ UNCHANGED <<enc, dec, pc, cur, blocks, estream, wire, ds, resized, dstream, fed>>

InitLists ==
    /\ enc = lsqpack_enc_init(BigCap, 0)
    /\ dec = lsqpack_dec_init(BigCap, 0)
    /\ pc = [enc |-> "run", dec |-> "run"]
    /\ cur = Cur0
    /\ blocks = <<>>
    /\ estream = <<>>
    /\ wire = <<>>
    /\ ds = [s \in 1..MaxBlocks |-> Ds0]
    /\ resized = 0
    /\ dstream = <<>>
    /\ fed = Fed0
    /\ \E c \in ListCaps :
          codec = [kind |-> "lists", t |-> ListsInit(c), op |-> "init"]

NextLists == ListsPush \/ ListsSetMaxCapacity

SpecLists == InitLists /\ [][NextLists]_vars


----------------------------------------------------------------------------
(* Properties *)

\* the (name, value) pairs of a header set, in order
HsetFields(hset) ==
    [k \in 1..Len(hset) |-> <<hset[k].qh_name, hset[k].qh_value>>]

\* the decoder has its initial capacity and has met one header block only
OneBlockFreshDecoder == resized = 0 /\ Len(blocks) = 1

\* C1: round trip.  A header block encoded by the encoder and fed, with
\* the encoder stream, in chunks to a decoder of the same capacity is
\* decoded without error and header_block_done delivers the names and
\* values that were encoded, in the same order.
RoundTrip ==
    OneBlockFreshDecoder =>
        /\ pc.dec \notin {"abort", "error"}
        /\ ds[1].st # "error"
        /\ ds[1].st = "done" => HsetFields(ds[1].hset) = blocks[1].hdrs

\* the ids of the entries in the encoder's dynamic table
EncLiveIds == {enc.qpe_all_entries[k].ete_id : k \in DOMAIN enc.qpe_all_entries}

\* the ids referenced by the header block being built and by the header
\* blocks emitted; no block is ever acknowledged
EncReferencedIds ==
    (IF enc.in_header THEN cur.refs ELSE {})
        \cup UNION {blocks[s].refs : s \in 1..Len(blocks)}

\* C2: the encoder never removes from its dynamic table an entry that the
\* header block being built or an emitted, unacknowledged header block
\* references.
EncKeepsReferencedEntries == EncReferencedIds \subseteq EncLiveIds

RECURSIVE EncTableSize(_)
\* the sum over the entries of name length + value length + 32
EncTableSize(entries) ==
    IF entries = <<>> THEN 0
    ELSE Len(Head(entries).name) + Len(Head(entries).val) + 32
             + EncTableSize(Tail(entries))

\* C3: the encoder's current table size is the sum of the sizes of its
\* live entries and is at most the maximum capacity.
EncCapacityInvariant ==
    /\ enc.qpe_cur_capacity = EncTableSize(enc.qpe_all_entries)
    /\ enc.qpe_cur_capacity <= enc.qpe_max_capacity

\* a capacity reduction has removed the oldest entry and left another
EncCapacityReduced ==
    /\ resized = 1
    /\ enc.qpe_all_entries # <<>>
    /\ Head(enc.qpe_all_entries).ete_id > 1
    /\ enc.qpe_cur_capacity = enc.qpe_max_capacity

\* the streams with an emitted, unacknowledged header block whose required
\* insert count exceeds the acknowledged insert count
RiskedStreams ==
    {s \in 1..Len(blocks) : blocks[s].ric > enc.qpe_max_acked_id}

\* C4: the number of streams at risk of blocking is at most
\* max_risked_streams.
EncBoundsRiskedStreams ==
    Cardinality(RiskedStreams) <= enc.qpe_max_risked_streams

\* every way of calling lsqpack_enc_encode: the sizes of the two buffers,
\* the no_index flag and the allocation that fails
EncodeCalls ==
    [enc_sz : BufSizes, hea_sz : BufSizes, no_index : {0, 1}, alloc : Allocs]

\* the encoder's dynamic table with its reference counts, its insert
\* count, its sizes and the bookkeeping of the current header block
EncTables(e) ==
    <<e.qpe_all_entries, e.qpe_ins_count, e.qpe_cur_capacity,
      e.qpe_max_capacity, e.qpe_cur_header>>

\* lsqpack_enc_encode of Hdrs[h] in the current state, called as in says
EncodeNow(e, h, in) ==
    Call("lsqpack_enc_encode", <<e, in.enc_sz, in.hea_sz, Hdrs[h][1], Hdrs[h][2],
                       in.no_index, in.alloc>>)

\* the same call with room in both buffers and no allocation failing
WithRoom(in) == [in EXCEPT !.enc_sz = BigBuf, !.hea_sz = BigBuf,
                           !.alloc = "none"]

\* what a call hands back, the encoder reduced to EncTables
EncResult(er) ==
    <<er.status, er.enc_bytes, er.hea_bytes, EncTables(er.enc)>>

IsNobuf(er) == er.status \in {"LQES_NOBUF_ENC", "LQES_NOBUF_HEAD"}

\* C10: when lsqpack_enc_encode returns NOBUF_ENC or NOBUF_HEAD, the
\* dynamic table, the insert count, the current size and the bookkeeping
\* of the current header block are as before the call, and the retry with
\* larger buffers gives what a first call with enough room gives.
NobufLeavesEncoderUnchanged ==
    (enc.in_header /\ pc.enc = "run") =>
        \A h \in 1..Len(Hdrs), in \in EncodeCalls :
            LET er == EncodeNow(enc, h, in)
            IN  IsNobuf(er) =>
                    /\ EncTables(er.enc) = EncTables(enc)
                    /\ EncResult(EncodeNow(er.enc, h, WithRoom(in)))
                           = EncResult(EncodeNow(enc, h, WithRoom(in)))

\* a header block is being built, the table holds an entry, one call
\* would insert one more but finds the encoder buffer too small, another
\* finds the header buffer too small
NobufWithEntries ==
    /\ enc.in_header /\ pc.enc = "run"
    /\ enc.qpe_all_entries # <<>>
    /\ \E h \in 1..Len(Hdrs), in \in EncodeCalls :
          /\ EncodeNow(enc, h, in).status = "LQES_NOBUF_ENC"
          /\ EncodeNow(enc, h, WithRoom(in)).enc.qpe_ins_count
                 > enc.qpe_ins_count
    /\ \E h \in 1..Len(Hdrs), in \in EncodeCalls :
          /\ EncodeNow(enc, h, in).status = "LQES_NOBUF_HEAD"
          /\ EncodeNow(enc, h, WithRoom(in)).enc.qpe_ins_count
                 > enc.qpe_ins_count

\* the header block on stream s needs inserts the decoder has not seen
NeedsInserts(s) == blocks[s].ric > dec.qpd_ins_count

\* lsqpack_dec_header_in of stream s, or lsqpack_dec_header_read when the
\* block is open, with all the bytes on the stream at hand
ReadNow(s, chunk) ==
    IF ds[s].st = "none"
    THEN Call("lsqpack_dec_header_in", <<dec, s, Len(blocks[s].bytes), wire[s], chunk>>)
    ELSE Call("lsqpack_dec_header_read", <<dec, s, wire[s], chunk>>)

\* the application may read stream s now
Readable(s) ==
    /\ pc.dec = "run"
    /\ wire[s] # <<>>
    /\ ds[s].st = "none" \/ (ds[s].st = "open" /\ ds[s].wantread = 1)

\* C5: the heap of blocked header blocks holds at most max_risked_streams
\* of them; a block that has to block when it holds that many makes
\* lsqpack_dec_header_in and lsqpack_dec_header_read return an error and
\* is not put into the heap.
BlockedWithinLimit ==
    /\ Len(dec.qpd_blocked_headers) <= dec.qpd_max_risked_streams
    /\ Len(dec.qpd_blocked_headers) = dec.qpd_max_risked_streams =>
           \A s \in 1..Len(blocks), chunk \in Chunks :
               (Readable(s) /\ NeedsInserts(s)) =>
                   /\ ReadNow(s, chunk).r = -1
                   /\ ReadNow(s, chunk).dec.qpd_blocked_headers
                          = dec.qpd_blocked_headers

\* one header block is in the heap, which is full, and another that
\* needed inserts has been refused
BlockRefused ==
    /\ dec.qpd_max_risked_streams >= 1
    /\ Len(dec.qpd_blocked_headers) = dec.qpd_max_risked_streams
    /\ \E s \in 1..Len(blocks) :
          ds[s].st = "error" /\ NeedsInserts(s) /\ ~Stashed(dec, s)

\* no header block in the heap has all the inserts it requires
NoneLeftBehind ==
    \A k \in 1..Len(dec.qpd_blocked_headers) :
        dec.qpd_blocked_headers[k].mhe_max_id > dec.qpd_ins_count

\* a step of lsqpack_dec_enc_in: bytes leave the encoder stream
IsDecEncIn == Len(estream') < Len(estream)

\* in a step, the header block of stream s leaves the heap
Unblocked(s) == Stashed(dec, s) /\ ~Stashed(dec', s)

\* in a step, the wantread callback wakes stream s
Woken(s) == ds'[s].wakes # ds[s].wakes

\* lsqpack_dec_enc_in wakes the blocks it takes from the heap and no
\* other, each once, with wantread on
WokenOnce ==
    IsDecEncIn =>
        \A s \in 1..MaxBlocks :
            /\ Unblocked(s) <=> Woken(s)
            /\ Woken(s) => /\ ds'[s].wakes = ds[s].wakes + 1
                           /\ ds'[s].wantread = 1

\* C6: when lsqpack_dec_enc_in returns, no header block whose required
\* insert count is at most the decoder's insert count is left in the
\* heap, and every block taken from the heap has been woken exactly once.
BlockedAreWoken == [](NoneLeftBehind) /\ [][WokenOnce]_vars

\* two blocked header blocks have been woken, the heap is empty
TwoWoken ==
    /\ dec.qpd_blocked_headers = <<>>
    /\ \A s \in 1..MaxBlocks : ds[s].stashed = 1 /\ ds[s].wakes = 1

\* the read context of stream s in qpd_hbrcs
CtxOf(d, s) == d.qpd_hbrcs[Call("find_header_block_read_ctx", <<d, s>>)]

\* the call delivers the header set of stream s through header_block_done
Delivers(r, s) ==
    /\ r.r = 0
    /\ \E k \in 1..Len(r.dec.cb) :
          r.dec.cb[k][1] = "header_block_done" /\ r.dec.cb[k][2] = s

\* a blocked header block is in the heap with wantread off and none of
\* its field lines decoded
BlockedIsParked ==
    \A s \in 1..Len(blocks) :
        Stashed(dec, s) =>
            /\ ds[s].wantread = 0
            /\ Call("find_header_block_read_ctx", <<dec, s>>) # 0
            /\ CtxOf(dec, s).hbrc_header_set = <<>>

\* a header block that needs inserts becomes blocked when it is read and
\* the heap has room
NeedyBlocks ==
    \A s \in 1..Len(blocks), chunk \in Chunks :
        (/\ Readable(s) /\ NeedsInserts(s)
         /\ Len(dec.qpd_blocked_headers) < dec.qpd_max_risked_streams) =>
            /\ ReadNow(s, chunk).r = 0
            /\ Stashed(ReadNow(s, chunk).dec, s)

\* stream s was blocked and has been woken: the inserts it required have
\* arrived and the decoder wants its bytes
WokenUp(s) ==
    /\ ds[s].stashed >= 1 /\ ds[s].wakes >= 1
    /\ ds[s].st = "open" /\ ds[s].wantread = 1

\* C7: a header block that needs inserts the decoder has not seen is
\* blocked, in the heap with wantread off and nothing decoded; when the
\* inserts have arrived, lsqpack_dec_header_read with the rest of the
\* block at hand completes it and header_block_done delivers its header
\* set.
BlockedThenDone ==
    /\ BlockedIsParked
    /\ NeedyBlocks
    /\ \A s \in 1..Len(blocks), chunk \in Chunks :
           (resized = 0 /\ WokenUp(s) /\ Readable(s)) =>
               Delivers(ReadNow(s, chunk), s)

\* the entries that the header sets delivered to the application and not
\* yet destroyed point into
HeldEntries ==
    UNION {{ds[s].hset[k].into : k \in 1..Len(ds[s].hset)} :
               s \in {t \in 1..MaxBlocks :
                          ds[t].st = "done" /\ ~ds[t].destroyed}} \ {NULL}

\* the entries in the decoder's dynamic table
DecTableEntries == {dec.qpd_dyn_table[k] : k \in DOMAIN dec.qpd_dyn_table}

\* C8: an entry of the decoder that a delivered, not yet destroyed header
\* set points into is not freed, evicted or not, and an entry is freed
\* only when its reference count reaches zero.
HeldEntriesStayAlive ==
    /\ \A a \in HeldEntries : ~dec.mem[a].freed
    /\ \A a \in 1..Len(dec.mem) :
           /\ dec.mem[a].dte_refcnt >= 0
           /\ dec.mem[a].freed => dec.mem[a].dte_refcnt = 0

\* an entry has been evicted from the table of a running decoder while a
\* header set points into it
EvictedButHeld ==
    /\ pc.dec = "run"
    /\ \E a \in HeldEntries : a \notin DecTableEntries

\* the decoder has been cleaned up while a header set points into an entry
CleanedButHeld == pc.dec = "clean" /\ HeldEntries # {}

\* the encoder's live entries carry, oldest first, the most recent ids up to
\* qpe_ins_count
EncIdsInOrder ==
    /\ enc.qpe_nelem = Len(enc.qpe_all_entries)
    /\ enc.qpe_nelem <= enc.qpe_ins_count
    /\ \A k \in DOMAIN enc.qpe_all_entries :
           enc.qpe_all_entries[k].ete_id = enc.qpe_ins_count - enc.qpe_nelem + k

\* the decoder has allocated one entry for each insertion, in order, and
\* its table holds, oldest first, the entries of the most recent insertions:
\* the entry of absolute id i is the one made by the i-th insertion
DecIdsInOrder ==
    pc.dec # "clean" =>
        /\ Len(dec.mem) = dec.qpd_ins_count
        /\ dec.qpd_ins_count = dec.qpd_del_count + Len(dec.qpd_dyn_table)
        /\ \A i \in (dec.qpd_del_count + 1)..dec.qpd_ins_count :
               Call("qdec_get_table_entry_abs", <<dec, i>>) = i

\* a step adds the next ids in order and removes only the oldest ids; the
\* counts do not decrease and an entry once inserted is not replaced
IdsNeverReused ==
    /\ enc'.qpe_ins_count >= enc.qpe_ins_count
    /\ EncLiveIds' \ EncLiveIds = (enc.qpe_ins_count + 1)..(enc'.qpe_ins_count)
    /\ \A i \in EncLiveIds \ EncLiveIds' : \A j \in EncLiveIds' : i < j
    /\ pc'.dec # "clean" =>
           /\ dec'.qpd_ins_count >= dec.qpd_ins_count
           /\ dec'.qpd_del_count >= dec.qpd_del_count
           /\ \A a \in 1..Len(dec.mem) :
                  /\ dec'.mem[a].name = dec.mem[a].name
                  /\ dec'.mem[a].val = dec.mem[a].val

\* C9: in the encoder and in the decoder the absolute ids are 1, 2, 3, ...
\* in insertion order and are never reused; the insert count is the number
\* of insertions made and never decreases; the live entries are the
\* contiguous range of the most recent ids, eviction removing the oldest.
IdsFollowInsertions ==
    [](EncIdsInOrder /\ DecIdsInOrder) /\ [][IdsNeverReused]_vars

\* both sides have inserted three entries after evicting: the encoder holds
\* id 3 alone, the decoder ids 2 and 3
InsertedAfterEviction ==
    /\ pc.dec = "run"
    /\ enc.qpe_ins_count = 3
    /\ EncLiveIds = {3}
    /\ dec.qpd_ins_count = 3
    /\ dec.qpd_del_count = 1
    /\ dec.qpd_dyn_table = <<2, 3>>

RECURSIVE EvictableSize(_)
\* the sizes of the oldest entries that no header block refers to, summed
\* up to the first entry that is referred to
EvictableSize(entries) ==
    IF entries = <<>> \/ Head(entries).ete_n_reffd > 0 THEN 0
    ELSE ETE_SIZE(Head(entries)) + EvictableSize(Tail(entries))

\* the free space and the evictable entries together are less than the
\* size of Hdrs[h] as an entry
NoRoomFor(e, h) ==
    e.qpe_max_capacity - e.qpe_cur_capacity
        + EvictableSize(e.qpe_all_entries)
            < ENTRY_COST(Len(Hdrs[h][1]), Len(Hdrs[h][2]))

\* the calls that allow indexing and give room in both buffers
IndexingCalls == {WithRoom(in) : in \in {c \in EncodeCalls : c.no_index = 0}}

\* the entries without their reference counts
EncEntryFields(e) ==
    [k \in DOMAIN e.qpe_all_entries |->
        <<e.qpe_all_entries[k].ete_id, e.qpe_all_entries[k].name,
          e.qpe_all_entries[k].val>>]

\* C11: when lsqpack_enc_encode is called for a header that may be indexed
\* and the free space plus the evictable oldest entries are smaller than the
\* new entry, the call returns OK, inserts nothing, evicts nothing, writes
\* nothing to the encoder stream and writes a representation to the header
\* block.
NoRoomNoInsert ==
    (enc.in_header /\ pc.enc = "run") =>
        \A h \in 1..Len(Hdrs), in \in IndexingCalls :
            NoRoomFor(enc, h) =>
                LET er == EncodeNow(enc, h, in)
                IN  /\ er.status = "LQES_OK"
                    /\ EncEntryFields(er.enc) = EncEntryFields(enc)
                    /\ er.enc.qpe_ins_count = enc.qpe_ins_count
                    /\ er.enc.qpe_cur_capacity = enc.qpe_cur_capacity
                    /\ er.enc_bytes = <<>>
                    /\ er.hea_bytes # <<>>

\* a header block is being built, the table holds an entry that nothing
\* refers to, and it is too small to make room for a header that is not in
\* the table
NoRoomWithEvictable ==
    /\ enc.in_header /\ pc.enc = "run"
    /\ EvictableSize(enc.qpe_all_entries) > 0
    /\ \E h \in 1..Len(Hdrs) :
          /\ NoRoomFor(enc, h)
          /\ \A k \in DOMAIN enc.qpe_all_entries :
                 enc.qpe_all_entries[k].name # Hdrs[h][1]
          /\ EncodeNow(enc, h, WithRoom(CHOOSE c \in EncodeCalls : c.no_index = 0)).status = "LQES_OK"

\* the streams whose header block has been handed to header_block_done
DoneStreams == {s \in 1..MaxBlocks : ds[s].st = "done"}

\* the Header Acknowledgement of stream s: the stream id with a 7-bit
\* prefix after the bit 1
HeaderAckOf(s) == InstrBytes([kind |-> "ack", val |-> s])

\* C12: each header block that has been decoded and handed to
\* header_block_done has its Header Acknowledgement, one for each block, in
\* what the decoder has written to the decoder stream.
DoneBlocksAcknowledged ==
    /\ Len(dstream) = Cardinality(DoneStreams)
    /\ \A s \in DoneStreams :
           \E i \in 1..Len(dstream) : <<dstream[i]>> = HeaderAckOf(s)

\* a whole instruction has been given to lsqpack_enc_decoder_in
Fed(kind) == fed.calls > 0 /\ fed.rest = <<>> /\ fed.instr.kind = kind

\* the emitted header blocks, other than that of stream s, and the block
\* being built
OtherRefs(s) ==
    (IF enc.in_header THEN cur.refs ELSE {})
        \cup UNION {blocks[t].refs : t \in (1..Len(blocks)) \ {s}}

\* no entry is counted as referenced on account of the block of stream s
\* alone
Released(s) ==
    \A k \in DOMAIN enc.qpe_all_entries :
        (/\ enc.qpe_all_entries[k].ete_id \in blocks[s].refs
         /\ enc.qpe_all_entries[k].ete_id \notin OtherRefs(s))
            => enc.qpe_all_entries[k].ete_n_reffd = 0

\* C13: after a complete Header Acknowledgement of an emitted block or a
\* complete Table State Synchronize that does not pass the insert count,
\* given in one piece or in two, lsqpack_enc_decoder_in has returned 0,
\* max_acked_id covers what was acknowledged, the references of the
\* acknowledged block are released and, when it was the only block, no
\* stream is counted at risk.
AcknowledgementsTakeEffect ==
    /\ (Fed("ack") /\ fed.instr.val \in 1..Len(blocks)) =>
           /\ fed.r = 0 /\ pc.enc = "run"
           /\ enc.qpe_max_acked_id >= blocks[fed.instr.val].ric
           /\ Released(fed.instr.val)
           /\ (Len(blocks) = 1 /\ ~enc.in_header) =>
                  enc.qpe_cur_streams_at_risk = 0
    /\ (Fed("synch") /\ fed.instr.val <= enc.qpe_ins_count) =>
           /\ fed.r = 0 /\ pc.enc = "run"
           /\ enc.qpe_max_acked_id >= fed.instr.val

\* C14: after a complete Stream Cancellation of stream s has been given to
\* lsqpack_enc_decoder_in, no entry is counted as referenced by the header
\* block of s.
CancellationReleases ==
    (Fed("cancel") /\ fed.instr.val \in 1..Len(blocks)) =>
        Released(fed.instr.val)

----------------------------------------------------------------------------
(* C15 *)

\* the whole buffer was given to lsqpack_dec_int in one call
IntOneCall == codec.calls = 1 /\ codec.given = Len(codec.bytes)

\* C15: for every prefix width in 1..8 and every value below 2^62, the
\* bytes lsqpack_enc_int wrote for the value, decoded by one call of
\* lsqpack_dec_int with a fresh state and the same width, give success,
\* the value, and src moved over exactly the bytes written.
IntRoundTrip ==
    (/\ codec.kind = "enc"
     /\ U64Less(codec.value, P2(62))
     /\ IntOneCall)
    => /\ codec.enc_len >= 1
       /\ codec.r = 0
       /\ codec.val64 = codec.value
       /\ codec.used = codec.enc_len

\* 2^62 - 1 with a prefix of 8 bits, ten bytes long and followed by a byte
\* that is not part of it, has been decoded
IntRoundTripLargest ==
    /\ codec.kind = "enc"
    /\ codec.prefix_bits = 8
    /\ codec.value = U64Sub(P2(62), 1)
    /\ codec.enc_len = 10
    /\ Len(codec.bytes) = 11
    /\ IntOneCall
    /\ codec.val64 = codec.value

----------------------------------------------------------------------------
(* C16 *)

\* C16: when the bytes of an encoding are given to lsqpack_dec_int one per
\* call, the state being kept, every call but the last returns -1 (more
\* bytes needed) and the last returns success with the value that one
\* call with all the bytes returns.
IntBytewiseSame ==
    (/\ codec.kind = "enc"
     /\ codec.bytewise
     /\ codec.calls >= 1
     /\ codec.given <= codec.enc_len)
    => LET one == Call("lsqpack_dec_int", <<SubSeq(codec.bytes, 1, codec.enc_len), 1,
                                  codec.prefix_bits, DecIntState0>>)
       IN  IF codec.given < codec.enc_len
           THEN codec.r = -1
           ELSE /\ one.r = 0
                /\ codec.r = 0
                /\ codec.val64 = one.val64

----------------------------------------------------------------------------
(* C17 *)

\* carries propagated in a number of four limbs of 28 bits
BigCarry(a, b, c, e) ==
    LET b1 == b + a \div Limb
        c1 == c + b1 \div Limb
    IN  <<a % Limb, b1 % Limb, c1 % Limb, e + c1 \div Limb>>

\* val + d * 2^M in four limbs, for d < 128 and M a multiple of 7
BigAddShl(val, d, M) ==
    LET k == M \div 28
        t == d * (2 ^ (M % 28))
    IN  BigCarry(val[1] + (IF k = 0 THEN t ELSE 0),
                 val[2] + (IF k = 1 THEN t ELSE 0),
                 val[3] + (IF k = 2 THEN t ELSE 0),
                 val[4] + (IF k = 3 THEN t ELSE 0))

RECURSIVE PrefixIntCont(_, _, _, _)
\* the continuation bytes from bytes[i] on, added to val
PrefixIntCont(bytes, i, val, M) ==
    IF i > Len(bytes) THEN [ended |-> FALSE, val |-> val, len |-> Len(bytes)]
    ELSE LET v2 == BigAddShl(val, bytes[i] % 128, M)
         IN  IF bytes[i] >= 128
             THEN PrefixIntCont(bytes, i + 1, v2, M + 7)
             ELSE [ended |-> TRUE, val |-> v2, len |-> i]

\* the prefix integer at the head of bytes as a number: whether its last
\* byte is there, its value in four limbs, and its length
PrefixInt(bytes, prefix_bits) ==
    LET p == bytes[1] % (2 ^ prefix_bits)
    IN  IF p < 2 ^ prefix_bits - 1
        THEN [ended |-> TRUE, val |-> <<p, 0, 0, 0>>, len |-> 1]
        ELSE PrefixIntCont(bytes, 2, <<p, 0, 0, 0>>, 0)

\* the number is 2^64 or more
BigExceeds(val) == val[4] > 0 \/ val[3] >= 256

\* C17: lsqpack_dec_int, in one call or over resumed calls, returns success
\* only with the value the prefix integer has as a number and with src
\* moved over its bytes; it returns -2 (overflow) when all the bytes of an
\* integer of 2^64 or more have been given, and when
\* LSQPACK_UINT64_ENC_SZ or more bytes have been given and the last byte
\* of the integer is not among them.
IntNeverWrong ==
    (codec.kind \in {"enc", "raw"} /\ codec.calls >= 1)
    => LET m == PrefixInt(codec.bytes, codec.prefix_bits)
       IN  /\ codec.r \in {0, -1, -2}
           /\ codec.r = 0
              => /\ m.ended
                 /\ codec.used = m.len
                 /\ <<codec.val64[1], codec.val64[2], codec.val64[3], 0>>
                    = m.val
           /\ (m.ended /\ BigExceeds(m.val) /\ codec.given >= m.len)
              => codec.r = -2
           /\ (/\ codec.given >= LSQPACK_UINT64_ENC_SZ
               /\ (~m.ended \/ m.len > codec.given))
              => codec.r = -2

\* an integer of eleven bytes that is 2^64 or more has been refused by a
\* resumed call
IntOverflowOnResume ==
    /\ codec.kind = "raw"
    /\ codec.calls = 2
    /\ codec.r = -2
    /\ LET m == PrefixInt(codec.bytes, codec.prefix_bits)
       IN  m.ended /\ BigExceeds(m.val) /\ codec.given = m.len /\ m.len = 11

----------------------------------------------------------------------------
(* C18 *)

\* C18: the bytes qenc_huffman_enc wrote for a string, decoded by one
\* call of lsqpack_huff_decode with a fresh state, final set and a
\* destination larger than the string, give HUFF_DEC_OK and the string.
HuffRoundTrip ==
    (codec.kind = "henc" /\ codec.whole)
    => /\ codec.status = "OK"
       /\ codec.out = codec.str
       /\ codec.pos = Len(codec.src)

\* a string of three bytes whose codes have 26, 13 and 6 bits has been
\* encoded and decoded by one call
HuffRoundTripLongCodes ==
    /\ codec.kind = "henc"
    /\ codec.whole
    /\ codec.str = <<255, 0, 32>>
    /\ Len(codec.src) = 6
    /\ codec.out = codec.str

----------------------------------------------------------------------------
(* C19 *)

\* a is the beginning of b
IsPrefix(a, b) == Len(a) <= Len(b) /\ a = SubSeq(b, 1, Len(a))

\* C19: however the encoding of a string is cut into source chunks and
\* whatever the sizes of the destinations, the bytes lsqpack_huff_decode
\* writes over the calls are those one call with all the source writes
\* (the beginning of them while calls remain), and HUFF_DEC_OK is returned
\* once: by a call that had the last source byte and final set, all the
\* source then being read; no call returns HUFF_DEC_ERROR, and a call that
\* had the last source byte and did not fill its destination returns
\* HUFF_DEC_OK.
HuffFragmentsSame ==
    (codec.kind = "henc" /\ codec.status # "none")
    => LET one == Call("lsqpack_huff_decode", <<codec.src, Len(codec.str) + 1,
                                      HuffState0, TRUE>>)
       IN  /\ one.status = "OK"
           /\ codec.status # "ERROR"
           /\ IsPrefix(codec.out, one.out)
           /\ codec.oks = (IF codec.status = "OK" THEN 1 ELSE 0)
           /\ codec.status = "OK"
              => /\ codec.final
                 /\ codec.out = one.out
                 /\ codec.pos = Len(codec.src)
           /\ codec.final => codec.status \in {"OK", "END_DST"}
           /\ ~codec.final => codec.status \in {"END_SRC", "END_DST"}

\* a string of three bytes has been decoded over calls of which one ran
\* out of source, one found the destination full before a byte, and one
\* found it full between the two halves of a byte
HuffResumedEveryWay ==
    /\ codec.kind = "henc"
    /\ Len(codec.str) = 3
    /\ codec.status = "OK"
    /\ codec.out = codec.str
    /\ codec.end_src = {1}
    /\ codec.end_dst = {2, 3}

----------------------------------------------------------------------------
(* C20 *)

\* the j-th half byte of src, the high half first
Nibble(src, j) ==
    IF j % 2 = 1 THEN src[(j + 1) \div 2] \div 16 ELSE src[j \div 2] % 16

RECURSIVE HuffWalk(_, _, _, _)
\* the automaton of decode_tables run over the half bytes of src from the
\* j-th on: whether a transition flagged FAIL is met and at which half
\* byte, and whether the last transition is flagged ACCEPTED
HuffWalk(src, j, state, eos) ==
    IF j > 2 * Len(src) THEN [fail |-> FALSE, at |-> j, eos |-> eos]
    ELSE LET el == decode_tables[state + 1][Nibble(src, j) + 1]
         IN  IF HasBit(el[2], HPACK_HUFFMAN_FLAG_FAIL)
             THEN [fail |-> TRUE, at |-> j, eos |-> 0]
             ELSE HuffWalk(src, j + 1, el[1],
                           IF HasBit(el[2], HPACK_HUFFMAN_FLAG_ACCEPTED)
                           THEN 1 ELSE 0)

\* the number of half bytes of the source the decoder has gone through
HuffNibblesDone == 2 * codec.pos + (IF codec.hs.resume = 3 THEN 1 ELSE 0)

\* C20: lsqpack_huff_decode returns HUFF_DEC_ERROR when a half byte takes
\* a transition flagged FAIL (it never goes past such a half byte with
\* another result) and, with final set, when the source has been read and
\* the last transition is not flagged ACCEPTED; it returns HUFF_DEC_OK only
\* when final is set, all the source has been read, no transition was
\* flagged FAIL and the last one is flagged ACCEPTED.
HuffErrors ==
    (codec.kind \in {"henc", "hraw"} /\ codec.status # "none")
    => LET w == HuffWalk(codec.src, 1, 0, 1)
       IN  /\ codec.status = "OK"
              => /\ codec.final
                 /\ codec.pos = Len(codec.src)
                 /\ ~w.fail
                 /\ w.eos = 1
           /\ codec.status = "ERROR"
              => \/ w.fail
                 \/ codec.final /\ w.eos = 0
           /\ (w.fail /\ codec.status # "ERROR")
              => HuffNibblesDone < w.at
           /\ (~w.fail /\ w.eos = 0 /\ codec.final)
              => codec.status \in {"ERROR", "END_DST"}

\* a source that takes a FAIL transition in its fourth byte has been
\* refused by a resumed call
HuffFailRefused ==
    /\ codec.kind = "hraw"
    /\ codec.status = "ERROR"
    /\ codec.end_src # {}
    /\ LET w == HuffWalk(codec.src, 1, 0, 1)
       IN  w.fail /\ w.at > 6

----------------------------------------------------------------------------
(* C21 *)

\* the static indexes of the entries equal to (name, val), and of those
\* with the name
StxExact(name, val) ==
    {i \in 1..QPACK_STATIC_TABLE_SIZE :
        static_table[i].name = name /\ static_table[i].val = val}
StxNamed(name) ==
    {i \in 1..QPACK_STATIC_TABLE_SIZE : static_table[i].name = name}

\* C21: lsqpack_enc_get_stx_tab_id answers as a scan of the static table
\* does: the index of the entry equal to (name, value) with the value
\* matched when there is one, else the index of an entry with the name and
\* the value not matched, else 0; and lsqpack_enc_encode of a header equal
\* to a static entry writes the indexed static representation (11xxxxxx
\* with the index), nothing for the encoder stream, and leaves the table.
StaticLookupIsScan ==
    codec.kind = "stx"
    => LET exact == StxExact(codec.name, codec.val)
           named == StxNamed(codec.name)
       IN  /\ IF exact # {}
              THEN codec.id \in exact /\ codec.val_matched = 1
              ELSE IF named # {}
              THEN codec.id \in named /\ codec.val_matched = 0
              ELSE codec.id = 0 /\ codec.val_matched = 0
           /\ (codec.encoded /\ exact # {})
              => /\ codec.status = "LQES_OK"
                 /\ \E i \in exact :
                       codec.hea_bytes
                       = Call("lsqpack_enc_int_nocheck", <<192, U64(i), 6>>)
                 /\ codec.enc_bytes = <<>>
                 /\ codec.same_table

----------------------------------------------------------------------------
(* C22 *)

\* the first byte of a representation is that of a literal: 01xxxxxx with
\* name reference, 001xxxxx without, 0000xxxx with post-base name reference
IsLiteralRep(bytes) ==
    bytes # <<>> /\ (bytes[1] \in 32..127 \/ bytes[1] \in 0..15)

\* the calls with LQEF_NO_INDEX and room in both buffers
NoIndexCalls == {WithRoom(in) : in \in {c \in EncodeCalls : c.no_index = 1}}

\* C22: every call of lsqpack_enc_encode with LQEF_NO_INDEX writes a
\* literal representation to the header block, nothing to the encoder
\* stream, and adds no entry to the dynamic table, whatever the tables hold.
NoIndexIsLiteral ==
    (enc.in_header /\ pc.enc = "run") =>
        \A h \in 1..Len(Hdrs), in \in NoIndexCalls :
            LET er == EncodeNow(enc, h, in)
            IN  /\ er.status = "LQES_OK"
                /\ IsLiteralRep(er.hea_bytes)
                /\ er.enc_bytes = <<>>
                /\ EncEntryFields(er.enc) = EncEntryFields(enc)
                /\ er.enc.qpe_ins_count = enc.qpe_ins_count

----------------------------------------------------------------------------
(* C23 *)

\* the decoder has been given all of block s and all of the encoder stream
AllGiven(s) ==
    /\ s \in 1..Len(blocks)
    /\ ds[s].st # "none"
    /\ wire[s] = <<>>
    /\ estream = <<>>

\* the k-th field of block s was written as a literal
SentLiteral(s, k) == IsLiteralRep(blocks[s].sent[k].bytes)

\* C23: a field written as a literal with LQEF_NO_INDEX reaches the
\* application with QH_NEVER set, one written as a literal without the
\* flag reaches it with QH_NEVER clear: once the decoder has all of the
\* block and of the encoder stream, the header set is there and the flag
\* of each literal in it is the one the field was encoded with.
NeverFlagPreserved ==
    \A s \in 1..Len(blocks) :
        (AllGiven(s) /\ \E k \in 1..Len(blocks[s].sent) : SentLiteral(s, k))
        => /\ pc.dec = "run"
           /\ ds[s].st = "done"
           /\ Len(ds[s].hset) = Len(blocks[s].sent)
           /\ \A k \in 1..Len(blocks[s].sent) :
                 SentLiteral(s, k)
                 => (ds[s].hset[k].qh_never
                     <=> blocks[s].sent[k].no_index = 1)

----------------------------------------------------------------------------
(* C24 *)

\* the ids of the entries a step has added to the decoder's table whose
\* size exceeds the capacity the decoder had
OversizedInserts ==
    {k \in (dec.qpd_ins_count + 1)..dec'.qpd_ins_count :
        DTE_SIZE(dec'.mem[k]) > dec.qpd_cur_max_capacity}

\* C24: an insert instruction of the encoder stream whose entry is larger
\* than the capacity of the decoder's table is refused: the call of
\* lsqpack_dec_enc_in that meets it returns an error.
OversizedInsertRefused ==
    [][OversizedInserts # {} => pc'.dec = "error"]_vars

----------------------------------------------------------------------------
(* C25 *)

\* the absolute id of the dynamic entry the field line of block s names:
\* the index itself in an indexed field line, base - index in a name
\* reference, base + index and base + index + 1 in the post-base forms
RawAbs(s) ==
    LET rep == blocks[s].rep
        base == blocks[s].base
    IN  CASE rep.kind = "idx_dyn" -> rep.idx
          [] rep.kind = "name_dyn" -> base - rep.idx
          [] rep.kind = "idx_post" -> base + rep.idx
          [] OTHER -> base + rep.idx + 1

\* the field line of block s names no entry: a static index outside the
\* table, or a dynamic entry evicted or not yet inserted
BadRef(s) ==
    IF blocks[s].rep.kind \in {"idx_stat", "name_stat"}
    THEN blocks[s].rep.idx \notin 1..QPACK_STATIC_TABLE_SIZE
    ELSE RawAbs(s) <= dec.qpd_del_count \/ RawAbs(s) > dec.qpd_ins_count

\* the step hands the decoder the last byte of the index of block s
RefRead(s) ==
    /\ Len(blocks[s].bytes) - Len(wire[s]) < blocks[s].at
    /\ Len(blocks[s].bytes) - Len(wire'[s]) >= blocks[s].at

\* C25: a header block whose field line names an entry that is not there
\* (a dynamic entry evicted or not yet inserted, a static index outside
\* 1..61) is refused: the call of lsqpack_dec_header_in or
\* lsqpack_dec_header_read that reads the index returns an error and
\* header_block_done is not called.
BadReferenceRefused ==
    [][\A s \in 1..Len(blocks) :
          (RefRead(s) /\ BadRef(s))
          => (ds'[s].st = "error" /\ ds'[s].hset = <<>>)]_vars

\* a block that names an entry evicted before the block was sent has been
\* read and refused
EvictedRefRefused ==
    \E s \in 1..Len(blocks) :
        /\ blocks[s].rep.kind = "idx_dyn"
        /\ blocks[s].rep.idx \in 1..blocks[s].del
        /\ blocks[s].ric <= dec.qpd_ins_count
        /\ wire[s] = <<>>
        /\ ds[s].st = "error"

----------------------------------------------------------------------------
(* C26 *)

\* the ids of the entries of the encoder's table equal to Hdrs[h] that an
\* earlier header block has inserted
EarlierEqual(e, h) ==
    {e.qpe_all_entries[k].ete_id : k \in
        {j \in DOMAIN e.qpe_all_entries :
            /\ e.qpe_all_entries[j].name = Hdrs[h][1]
            /\ e.qpe_all_entries[j].val = Hdrs[h][2]
            /\ e.qpe_all_entries[j].ete_id <= e.qpe_cur_header.base_idx}}

\* the current block may refer to an entry not yet acknowledged
RiskPermitted(e) ==
    \/ e.qpe_cur_header.n_risked > 0
    \/ e.qpe_cur_header.others_at_risk # 0
    \/ e.qpe_cur_streams_at_risk < e.qpe_max_risked_streams

\* of them, those the current block may refer to
Usable(e, h) ==
    {id \in EarlierEqual(e, h) :
        id <= e.qpe_max_acked_id \/ RiskPermitted(e)}

\* the calls with room in both buffers
RoomyCalls == {WithRoom(in) : in \in EncodeCalls}

\* C26: a header equal, name and value, to a dynamic entry that an earlier
\* block inserted, the entry acknowledged or risk permitted, is encoded
\* as an indexed reference to such an entry; nothing is written to the
\* encoder stream and nothing is inserted.
FoundIsIndexed ==
    (enc.in_header /\ pc.enc = "run") =>
        \A h \in 1..Len(Hdrs), in \in RoomyCalls :
            Usable(enc, h) # {} =>
                LET er == EncodeNow(enc, h, in)
                IN  /\ er.status = "LQES_OK"
                    /\ \E id \in Usable(enc, h) :
                          /\ er.hea_bytes
                             = Call("lsqpack_enc_int_nocheck", <<128, U64(id), 6>>)
                          /\ er.ref = id
                    /\ er.enc_bytes = <<>>
                    /\ EncEntryFields(er.enc) = EncEntryFields(enc)
                    /\ er.enc.qpe_ins_count = enc.qpe_ins_count

\* a block is open while the table holds an entry of an earlier block
\* equal to one of the headers, and the block may take the risk
EarlierEntryUsable ==
    /\ enc.in_header
    /\ pc.enc = "run"
    /\ \E h \in 1..Len(Hdrs) : Usable(enc, h) # {}

----------------------------------------------------------------------------
(* C27 *)

\* C27: lsqpack_enc_encode writes a reference to a dynamic entry whose id
\* is above qpe_max_acked_id only if the block already holds such a
\* reference, or another block of the stream is at risk, or
\* qpe_cur_streams_at_risk is below qpe_max_risked_streams.
RiskyRefOnlyIfPermitted ==
    (enc.in_header /\ pc.enc = "run") =>
        \A h \in 1..Len(Hdrs), in \in EncodeCalls :
            LET er == EncodeNow(enc, h, in)
            IN  (er.status = "LQES_OK" /\ er.ref > enc.qpe_max_acked_id)
                => RiskPermitted(enc)

\* a block that may take no risk is open while the table holds an entry
\* not acknowledged that has the name of one of the headers
UnackedEntryNoRisk ==
    /\ enc.in_header
    /\ pc.enc = "run"
    /\ ~RiskPermitted(enc)
    /\ enc.qpe_cur_header.use_dynamic_table = 1
    /\ \E h \in 1..Len(Hdrs), k \in DOMAIN enc.qpe_all_entries :
          /\ enc.qpe_all_entries[k].name = Hdrs[h][1]
          /\ enc.qpe_all_entries[k].ete_id > enc.qpe_max_acked_id

----------------------------------------------------------------------------
(* C28 *)

\* the first byte of a field line is that of a post-base form: 0001xxxx
\* indexed, 0000xxxx literal with name reference
IsPostBaseRep(bytes) == bytes # <<>> /\ bytes[1] \in 0..31

\* the first byte is that of a form relative to the base with a dynamic
\* entry: 10xxxxxx indexed, 01x0xxxx literal with name reference
IsRelativeRep(bytes) ==
    bytes # <<>> /\ (bytes[1] \in 128..191
                        \/ (bytes[1] \in 64..127 /\ (bytes[1] \div 16) % 2 = 0))

\* C28: a field line in a post-base form names an entry with id above the
\* base index of the block, one in a relative form an entry with id at
\* most the base index, and the asserts id > base_idx of
\* lsqpack_enc_encode never fail.
PostBaseAboveBase ==
    (enc.in_header /\ pc.enc = "run") =>
        \A h \in 1..Len(Hdrs), in \in RoomyCalls :
            LET er == EncodeNow(enc, h, in)
                base_idx == enc.qpe_cur_header.base_idx
            IN  /\ er.status # "ABORT"
                /\ (er.status = "LQES_OK" /\ IsPostBaseRep(er.hea_bytes))
                   => er.ref > base_idx
                /\ (er.status = "LQES_OK" /\ IsRelativeRep(er.hea_bytes))
                   => er.ref \in 1..base_idx

----------------------------------------------------------------------------
(* C29 *)

\* the largest id among the entries the field lines of the block being
\* built refer to, 0 when they refer to none
LargestRef == IF cur.refs = {} THEN 0
              ELSE CHOOSE m \in cur.refs : \A r \in cur.refs : r <= m

\* C29: the required insert count that lsqpack_enc_end_header writes at
\* the head of the prefix is the largest absolute id of a dynamic entry
\* that a field line of the block refers to, and the prefix is 00 00
\* exactly when no field line refers to a dynamic entry.
PrefixHasLargestRef ==
    (enc.in_header /\ pc.enc = "run") =>
        LET eh == Call("lsqpack_enc_end_header", <<enc, BigBuf>>)
        IN  /\ eh.r >= 2
            /\ SubSeq(eh.bytes, 1, Len(eh.bytes) - 1)
               = Call("lsqpack_enc_int_nocheck", <<0, U64(LargestRef), 8>>)
            /\ (eh.bytes = <<0, 0>>) <=> (cur.refs = {})

----------------------------------------------------------------------------
(* C30 *)

\* the absolute ids live in the encoder's table and in the decoder's
EncLive == {enc.qpe_all_entries[k].ete_id : k \in DOMAIN enc.qpe_all_entries}
DecLive == (dec.qpd_del_count + 1)..dec.qpd_ins_count

\* the entry of the encoder's table with this id, as (name, value)
EncEntry(id) ==
    LET k == CHOOSE j \in DOMAIN enc.qpe_all_entries :
                 enc.qpe_all_entries[j].ete_id = id
    IN  <<enc.qpe_all_entries[k].name, enc.qpe_all_entries[k].val>>

\* the decoder has been given every byte the encoder has written for the
\* encoder stream, and both tables have the capacity they began with
EncoderStreamConsumed ==
    /\ estream = <<>>
    /\ cur.enc_bytes = <<>>
    /\ resized = 0
    /\ pc.dec # "clean"

----------------------------------------------------------------------------
(* C31 *)

\* the call has asked for more bytes of stream s
WantsMore(r, s) ==
    /\ r.r = 0
    /\ ~r.abort
    /\ r.dec.cb # <<>>
    /\ r.dec.cb[Len(r.dec.cb)] = <<"wantread", s, 1>>

RECURSIVE ReadOn(_, _, _, _, _)
\* lsqpack_dec_header_read called again and again after the result r, as
\* long as the decoder asks for more, with step more bytes of left each
\* time, the read callback giving out at most chunk bytes at once
ReadOn(r, s, left, step, chunk) ==
    IF left = <<>> \/ ~WantsMore(r, s) THEN r
    ELSE LET n == Min(step, Len(left))
         IN  ReadOn(Call("lsqpack_dec_header_read", <<
                        r.dec, s, r.rest \o SubSeq(left, 1, n), chunk>>),
                    s, SubSeq(left, n + 1, Len(left)), step, chunk)

\* the block of stream s read to its end from the state it is in, step
\* bytes of the stream readable at each call
DecodeInPieces(s, step, chunk) ==
    IF ds[s].st = "none"
    THEN LET n == Min(step, Len(wire[s]))
         IN  ReadOn(Call("lsqpack_dec_header_in", <<
                        dec, s, Len(blocks[s].bytes),
                        SubSeq(wire[s], 1, n), chunk>>),
                    s, SubSeq(wire[s], n + 1, Len(wire[s])), step, chunk)
    ELSE ReadOn([r |-> 0, abort |-> FALSE, rest |-> <<>>,
                 dec |-> DecCb(dec, <<"wantread", s, 1>>)],
                s, wire[s], step, chunk)

\* what the application sees of the decoding of the block of stream s:
\* the result of the last call, the header sets delivered, whether the
\* block waits for inserts
Outcome(r, s) ==
    [r |-> r.r, abort |-> r.abort,
     done |-> SelectSeq(r.dec.cb, LAMBDA c : c[1] = "header_block_done"),
     blocked |-> Stashed(r.dec, s)]

\* the block of stream s has bytes yet to be read, and the decoder is
\* ready to read them
ToBeRead(s) ==
    /\ pc.dec = "run"
    /\ wire[s] # <<>>
    /\ \/ ds[s].st = "none"
       \/ ds[s].st = "open" /\ ds[s].wantread = 1

----------------------------------------------------------------------------
(* C32 *)

\* the declared size of the block ends where the prefix or a field line
\* ends, not inside the prefix and not inside a field line
AtBoundary(b) ==
    \/ b.cut = b.plen
    \/ b.cut = b.plen + Len(b.line)
    \/ b.line = <<81>> \o FragPlain \o <<209>> /\ b.cut = b.plen + 4

\* every byte of the block has been read and the decoder is not waiting
\* for inserts: the decoding of the block has ended
ReadOut(s) ==
    /\ ds[s].st # "none"
    /\ wire[s] = <<>>
    /\ ~Stashed(dec, s)
    /\ ~(ds[s].st = "open" /\ ds[s].wantread = 1)

\* C32: header_block_done has been called for a block only when all its
\* bytes have been read and its declared size ends at the end of a field
\* line; the decoder then has no context left for the stream and
\* lsqpack_dec_header_read for it returns -1; and a block whose declared
\* size ends inside the prefix or inside a field line has ended in an
\* error when its decoding has ended.
DoneOnlyAtBoundary ==
    \A s \in 1..Len(blocks) :
        /\ ds[s].st = "done" =>
              /\ wire[s] = <<>>
              /\ AtBoundary(blocks[s])
              /\ Call("find_header_block_read_ctx", <<dec, s>>) = 0
              /\ Call("lsqpack_dec_header_read", <<dec, s, <<>>, MaxChunk>>).r = -1
        /\ (~AtBoundary(blocks[s]) /\ ReadOut(s) /\ pc.dec # "abort")
              => ds[s].st = "error"

----------------------------------------------------------------------------
(* C33 *)

RECURSIVE DecTableSize(_, _)
\* the sum of the sizes of the entries at the addresses in table
DecTableSize(d, table) ==
    IF table = <<>> THEN 0
    ELSE DTE_SIZE(d.mem[Head(table)]) + DecTableSize(d, Tail(table))

\* C33: after every return of lsqpack_dec_enc_in and of
\* lsqpack_dec_set_max_capacity the decoder's table holds qpd_ins_count -
\* qpd_del_count entries, the entry pushed as the a-th is at offset
\* a - qpd_del_count - 1, qpd_cur_capacity is the sum of the sizes of the
\* entries held, and it is at most qpd_cur_max_capacity.
DecTableConsistent ==
    pc.dec \in {"run", "error"} =>
        /\ Len(dec.qpd_dyn_table) = dec.qpd_ins_count - dec.qpd_del_count
        /\ \A a \in (dec.qpd_del_count + 1)..dec.qpd_ins_count :
              dec.qpd_dyn_table[a - dec.qpd_del_count] = a
        /\ dec.qpd_cur_capacity = DecTableSize(dec, dec.qpd_dyn_table)
        /\ dec.qpd_cur_capacity <= dec.qpd_cur_max_capacity

\* lsqpack_dec_set_max_capacity has been called, two entries or more
\* have been evicted, and an entry is left in the table
EvictedByBoth ==
    /\ pc.dec = "run"
    /\ resized = 1
    /\ dec.qpd_del_count >= 2
    /\ dec.qpd_cur_max_capacity = dec.qpd_max_capacity
    /\ Len(dec.qpd_dyn_table) >= 1

----------------------------------------------------------------------------
(* C34 *)

RECURSIVE FeedBytes(_, _)
\* lsqpack_dec_enc_in called with one byte of bytes after the other, as
\* long as it returns 0
FeedBytes(r, bytes) ==
    IF bytes = <<>> \/ r.r # 0 THEN r
    ELSE FeedBytes(Call("lsqpack_dec_enc_in", <<r.dec, <<Head(bytes)>>>>), Tail(bytes))

\* the ways of giving the instruction to the decoder: in one call, and
\* byte by byte
GivenBothWays(d, bytes) ==
    {Call("lsqpack_dec_enc_in", <<d, bytes>>), FeedBytes([r |-> 0, dec |-> d], bytes)}

\* table is what is left of the table of d when as few of its oldest
\* entries as possible are evicted to make it fit c bytes
EvictedToFit(d, table, c) ==
    LET n == Len(d.qpd_dyn_table)
        k == n - Len(table)
    IN  /\ k >= 0
        /\ table = SubSeq(d.qpd_dyn_table, k + 1, n)
        /\ DecTableSize(d, table) <= c
        /\ k > 0 => DecTableSize(d, SubSeq(d.qpd_dyn_table, k, n)) > c

\* C34: given to a decoder that is between two instructions, a Set
\* Dynamic Table Capacity instruction with a value above qpd_max_capacity
\* makes lsqpack_dec_enc_in return -1 and leaves the table, the insert
\* count and the current capacity as they were; with a value within
\* qpd_max_capacity the call returns 0, the value is the current maximum
\* capacity, and the oldest entries, as few as possible, are evicted
\* until the table fits.
SizeUpdateHandled ==
    (pc.dec = "run" /\ estream = <<>>) =>
        \A c \in TabCaps \cup {1, SmallCap + 1} :
            \A r \in GivenBothWays(dec, SizeUpdate(c)) :
                IF c > dec.qpd_max_capacity
                THEN /\ r.r = -1
                     /\ r.dec.qpd_dyn_table = dec.qpd_dyn_table
                     /\ r.dec.mem = dec.mem
                     /\ r.dec.qpd_ins_count = dec.qpd_ins_count
                     /\ r.dec.qpd_del_count = dec.qpd_del_count
                     /\ r.dec.qpd_cur_capacity = dec.qpd_cur_capacity
                     /\ r.dec.qpd_cur_max_capacity = dec.qpd_cur_max_capacity
                ELSE /\ r.r = 0
                     /\ r.dec.qpd_cur_max_capacity = c
                     /\ r.dec.qpd_max_capacity = dec.qpd_max_capacity
                     /\ r.dec.qpd_ins_count = dec.qpd_ins_count
                     /\ r.dec.qpd_cur_capacity
                        = DecTableSize(r.dec, r.dec.qpd_dyn_table)
                     /\ EvictedToFit(dec, r.dec.qpd_dyn_table, c)

\* of two entries that fit the capacity the decoder began with, a Set
\* Dynamic Table Capacity instruction has evicted the older
UpdateEvicted ==
    /\ pc.dec = "run"
    /\ estream = <<>>
    /\ resized = 0
    /\ dec.qpd_max_capacity = BigCap
    /\ dec.qpd_cur_max_capacity = SmallCap
    /\ dec.qpd_ins_count = 2
    /\ dec.qpd_del_count = 1
    /\ dec.qpd_dyn_table = <<2>>

----------------------------------------------------------------------------
(* C35 *)

\* C35: lsqpack_enc_start_header returns -1 and changes nothing while a
\* block is open, and returns 0 and opens a block otherwise;
\* lsqpack_enc_end_header returns -1 when no block is open, closes the
\* block when it writes the prefix, and with a buffer too small for the
\* prefix returns 0 and leaves the encoder as it was, so that a call with
\* a buffer that is big enough then writes the prefix.
OneBlockOpen ==
    pc.enc = "run" =>
        /\ \A realloc_ok \in BOOLEAN :
              LET sh == lsqpack_enc_start_header(enc, Len(blocks) + 1, 0,
                                                 realloc_ok)
              IN  IF enc.in_header THEN sh.r = -1 /\ sh.enc = enc
                  ELSE sh.r = 0 /\ sh.enc.in_header
        /\ \A sz \in PrefixSizes \cup {BigBuf} :
              LET eh == Call("lsqpack_enc_end_header", <<enc, sz>>)
              IN  /\ ~eh.abort
                  /\ IF ~enc.in_header THEN eh.r = -1 /\ eh.enc = enc
                     ELSE IF eh.r > 0
                     THEN Len(eh.bytes) = eh.r /\ ~eh.enc.in_header
                     ELSE /\ eh.r = 0
                          /\ eh.enc = enc
                          /\ Call("lsqpack_enc_end_header", <<eh.enc, BigBuf>>).r > 0

----------------------------------------------------------------------------
(* C36 *)

\* the call of lsqpack_enc_encode for Hdrs[h] with room in both buffers
\* and the allocation a failing
FailingCall(a) ==
    [enc_sz |-> BigBuf, hea_sz |-> BigBuf, no_index |-> 0, alloc |-> a]

\* the call for Hdrs[h] gets as far as lsqpack_enc_push_entry, as the
\* insert made when nothing fails shows, and there the allocation a
\* fails: that of the entry, or that of the bucket array when the table
\* is to be grown
PushFails(h, a) ==
    /\ EncodeNow(enc, h, FailingCall("none")).enc.qpe_ins_count
       = enc.qpe_ins_count + 1
    /\ a = "entry" \/ enc.qpe_nelem >= (2 ^ enc.qpe_nbits) \div 2

\* C36: when the allocation of the new entry or of the bucket array
\* fails in lsqpack_enc_encode, the call returns LQES_OK with a literal
\* representation that refers to no entry newer than those in the table,
\* writes no encoder-stream byte, and leaves the insert count and the
\* entries of the table as they were.
AllocFailureFallsBack ==
    (enc.in_header /\ pc.enc = "run") =>
        \A h \in 1..Len(Hdrs), a \in {"grow", "entry"} :
            PushFails(h, a) =>
                LET er == EncodeNow(enc, h, FailingCall(a))
                IN  /\ er.status = "LQES_OK"
                    /\ IsLiteralRep(er.hea_bytes)
                    /\ er.ref <= enc.qpe_ins_count
                    /\ er.enc_bytes = <<>>
                    /\ er.enc.qpe_ins_count = enc.qpe_ins_count
                    /\ EncEntryFields(er.enc) = EncEntryFields(enc)
                    /\ er.enc.qpe_cur_capacity = enc.qpe_cur_capacity

\* the bucket array has been grown for a third entry whose allocation
\* then failed: two entries inserted, eight buckets
GrownButNotPushed ==
    /\ pc.enc = "run"
    /\ enc.qpe_ins_count = 2
    /\ enc.qpe_nelem = 2
    /\ enc.qpe_nbits = 3

----------------------------------------------------------------------------
(* C37 *)

\* the k-th field of block s was written as a literal with post-base
\* name reference, 0000Nxxx
SentPostBaseName(s, k) == blocks[s].sent[k].bytes[1] \in 0..15

\* no field of block s was written as a literal without name reference
NoneWithoutNameRef(s) ==
    \A k \in 1..Len(blocks[s].sent) : blocks[s].sent[k].bytes[1] \notin 32..63

\* C37: the index written for a literal with post-base name reference to
\* the entry id under the base of the block is mapped back by the decoder
\* to the entry id: once the decoder has all of the block and of the
\* encoder stream, the block is decoded and the field has the name of the
\* entry the encoder referred to.
PostBaseNameResolved ==
    \A s \in 1..Len(blocks) :
        (AllGiven(s) /\ NoneWithoutNameRef(s)) =>
            \A k \in 1..Len(blocks[s].sent) :
                SentPostBaseName(s, k)
                => /\ ds[s].st = "done"
                   /\ Len(ds[s].hset) = Len(blocks[s].sent)
                   /\ ds[s].hset[k].qh_name = blocks[s].hdrs[k][1]

----------------------------------------------------------------------------
(* C38 *)

\* block s has one field, written as a literal without name reference,
\* and the decoder has read the length of its name and nothing beyond it
NameLengthRead(s) ==
    /\ ds[s].st = "open"
    /\ Len(blocks[s].sent) = 1
    /\ blocks[s].sent[1].bytes[1] \in 32..63
    /\ Call("find_header_block_read_ctx", <<dec, s>>) # 0
    /\ CtxOf(dec, s).state \in {"DATA_STATE_READ_LFONR_NAME_HUFFMAN",
                                "DATA_STATE_READ_LFONR_NAME_PLAIN"}

\* lsqpack_enc_enc_str wrote the name of block s Huffman-coded: it set
\* the bit 1 << prefix_bits of the first byte
NameWrittenHuffman(s) == HasBit(blocks[s].sent[1].bytes[1], 8)

\* the number of bytes lsqpack_enc_enc_str wrote for the name after its
\* length
NameWrittenLen(s) ==
    IF NameWrittenHuffman(s)
    THEN Len(Call("qenc_huffman_enc", <<blocks[s].hdrs[1][1]>>))
    ELSE Len(blocks[s].hdrs[1][1])

\* C38: for a literal without name reference the decoder takes the
\* Huffman flag and the length of the name from the bits in which the
\* encoder wrote them: once it has read the length, it is about to
\* Huffman-decode the name if and only if the name was written
\* Huffman-coded, and the length it holds is the one written.
NameReadAsWritten ==
    \A s \in 1..Len(blocks) :
        NameLengthRead(s)
        => /\ CtxOf(dec, s).state = "DATA_STATE_READ_LFONR_NAME_HUFFMAN"
              <=> NameWrittenHuffman(s)
           /\ CtxOf(dec, s).u.str_len = NameWrittenLen(s)

----------------------------------------------------------------------------
(* C39 *)

\* header set s holds a field that took a reference on entry a: the field
\* points into it
UsedBy(a) ==
    {s \in 1..MaxBlocks :
        ds[s].st = "done"
        /\ \E k \in 1..Len(ds[s].hset) : ds[s].hset[k].into = a}

\* the decoder is reading no block: every block it was given has been
\* delivered
NoBlockOpen ==
    /\ pc.dec = "run"
    /\ \A s \in 1..MaxBlocks : ds[s].st \in {"none", "done"}

\* C39: the references taken on a dynamic entry for the fields of a
\* header set are released by lsqpack_dec_destroy_header_set: when the
\* decoder is reading no block, an entry that has been evicted and whose
\* header sets have all been destroyed has reference count zero and is
\* freed.
DestroyedSetsReleaseEntries ==
    NoBlockOpen =>
        \A a \in 1..Len(dec.mem) :
            (a \notin DecTableEntries /\ \A s \in UsedBy(a) : ds[s].destroyed)
            => (dec.mem[a].dte_refcnt = 0 /\ dec.mem[a].freed)

----------------------------------------------------------------------------
(* C40 *)

\* list holds entries in the order of their insertion, none of them twice
InInsertionOrder(list) ==
    \A i, j \in 1..Len(list) : i < j => list[i].ete_id < list[j].ete_id

\* the entries on list
OnList(list) == {list[k] : k \in 1..Len(list)}

\* every entry of t is on the three lists, in the buckets its hashes
\* select among the N_BUCKETS(qpe_nbits) there are, the buckets hold no
\* other entry, and every list is in insertion order
ListsAgree(t) ==
    /\ Len(t.qpe_buckets) = N_BUCKETS(t.qpe_nbits)
    /\ t.qpe_nelem = Len(t.qpe_all_entries)
    /\ InInsertionOrder(t.qpe_all_entries)
    /\ \A n \in 1..Len(t.qpe_buckets) :
          /\ InInsertionOrder(t.qpe_buckets[n].by_name)
          /\ InInsertionOrder(t.qpe_buckets[n].by_nameval)
          /\ OnList(t.qpe_buckets[n].by_name)
             = {e \in OnList(t.qpe_all_entries) :
                   BUCKNO(t.qpe_nbits, e.ete_name_hash) + 1 = n}
          /\ OnList(t.qpe_buckets[n].by_nameval)
             = {e \in OnList(t.qpe_all_entries) :
                   BUCKNO(t.qpe_nbits, e.ete_nameval_hash) + 1 = n}

\* the step changes the number of buckets only by doubling it, in a push
\* that finds qpe_nelem at half the number of buckets or more, and a push
\* that adds an entry when qpe_nelem is that large doubles it
BucketsDoubleAtHalf ==
    LET t == codec.t
        u == codec'.t
        half == t.qpe_nelem >= N_BUCKETS(t.qpe_nbits) \div 2
    IN  /\ u.qpe_nbits # t.qpe_nbits
           => (u.qpe_nbits = t.qpe_nbits + 1 /\ half /\ codec'.op = "push")
        /\ (u.qpe_ins_count # t.qpe_ins_count /\ half)
           => u.qpe_nbits = t.qpe_nbits + 1

\* C40: every entry of the encoder's table is on qpe_all_entries and on
\* the by_name and by_nameval lists of the buckets its hashes select under
\* the current number of buckets, every list is in insertion order, the
\* number of buckets changes only by doubling when a push finds the number
\* of entries at half of it, and no assertion of qenc_drop_oldest_entry
\* fails.
EncListsConsistent ==
    /\ [](~codec.t.abort /\ ListsAgree(codec.t))
    /\ [][BucketsDoubleAtHalf]_vars

\* the oldest entry has been dropped from a table whose bucket array was
\* doubled twice, while a younger entry shares one of its buckets
DroppedAfterDoubling ==
    /\ codec.t.qpe_nbits = 4
    /\ codec.t.qpe_nelem < codec.t.qpe_ins_count
    /\ \E n \in 1..Len(codec.t.qpe_buckets) :
          Len(codec.t.qpe_buckets[n].by_name) >= 2
====
